---------------------------- MODULE Spec2Model ----------------------------
(***************************************************************************)
(* A model of the MLang expression compiler: Lexer (src/src/lexer.rs),     *)
(* Parser and ParseResult (src/src/parser.rs), ASTNode (src/src/ast.rs),   *)
(* Token and ParseError (src/src/token.rs, src/src/error.rs) and the       *)
(* compile handler of the application (src/src/ui.rs).                     *)
(*                                                                         *)
(* Strings of the program are sequences of one-character strings; a name   *)
(* or a message that is only compared and printed is a TLA+ string.        *)
(* An f64 is modelled bit for bit: arithmetic, parsing and printing are    *)
(* those of IEEE 754 binary64 with round-to-nearest-even, powf is the pow  *)
(* of glibc on x86-64.                                                     *)
(***************************************************************************)
EXTENDS Integers, Sequences, FiniteSets, TLC

VARIABLES
    input,          \* ExpressionParserApp.input / the &str given to from_input
    parse_result,   \* ExpressionParserApp.parse_result : Option<ParseResult>
    error,          \* ExpressionParserApp.error : Option<String>
    lexer,          \* the Lexer object of the running from_input
    tokens,         \* the `tokens` vector Lexer::tokenize is filling
    lex_result,     \* what Lexer::tokenize returned ("Running" before it returns)
    parser,         \* the Parser object of the running from_input
    outcome,        \* what from_input / Parser::parse returned ("Running" before)
    ast,            \* the ASTNode a tree function is applied to, or the
                    \* expression whose text is compiled
    warnings,       \* the result of ASTNode::semantic_check on ast
    tac,            \* the result of ASTNode::to_three_address_code on ast
    optimized,      \* the results of ASTNode::optimize on ast and then on
                    \* its own result, in the order of the calls
    value,          \* the results of ASTNode::evaluate on ast and then on
                    \* optimize of ast
    lines,          \* the `code` vector given to peephole_optimize
    optimized_code, \* what peephole_optimize returned for lines
    build           \* the profile the running program was built with

vars == << input, parse_result, error, lexer, tokens, lex_result, parser,
           outcome, ast, warnings, tac, optimized, value, lines,
           optimized_code, build >>

-----------------------------------------------------------------------------
(* Bounds of the model.                                                    *)

\* the longest input of the lexer specification, in pieces of LexPieces
MaxPieces == 4
\* the longest input of the parser specification, in lexemes
MaxTokens == 4
\* the most operator nodes of a tree the tree functions are applied to
MaxOps == 3
\* the most operator nodes of an expression of the grammar that is compiled
MaxGrammarOps == 2
\* the largest numerator and denominator the model computes with
MaxExact == 16384
\* the largest index of a temporary of the code of a compilation
MaxTempIndex == 6
\* the largest number of operator nodes of a tree given to optimize
MaxOptOps == 2
\* the most operators of a constant text that is compiled
MaxConstOps == 2
\* the most expressions of a chained assignment that is compiled
MaxChain == 3

-----------------------------------------------------------------------------
(* Characters (char::is_whitespace, is_numeric, is_alphabetic,             *)
(* is_alphanumeric, to_lowercase) over the ASCII characters of the model.  *)

Digits == {"0", "1", "2", "3", "4", "5", "6", "7", "8", "9"}

LowerLetters == {"a", "b", "c", "d", "e", "f", "g", "h", "i", "j", "k", "l", "m",
                 "n", "o", "p", "q", "r", "s", "t", "u", "v", "w", "x", "y", "z"}

UpperLetters == {"A", "B", "C", "D", "E", "F", "G", "H", "I", "J", "K", "L", "M",
                 "N", "O", "P", "Q", "R", "S", "T", "U", "V", "W", "X", "Y", "Z"}

\* char::is_whitespace on ASCII: U+0009 to U+000D and the space; the fourth
\* string holds U+000B (vertical tab), which a string has no escape for
IsWhitespace(ch) == ch \in {" ", "\t", "\n", "", "\f", "\r"}

IsNumeric(ch) == ch \in Digits

IsAlphabetic(ch) == ch \in LowerLetters \cup UpperLetters

IsAlphanumeric(ch) == IsAlphabetic(ch) \/ IsNumeric(ch)

LowerOf(ch) ==
    CASE ch = "A" -> "a" [] ch = "B" -> "b" [] ch = "C" -> "c" [] ch = "D" -> "d"
      [] ch = "E" -> "e" [] ch = "F" -> "f" [] ch = "G" -> "g" [] ch = "H" -> "h"
      [] ch = "I" -> "i" [] ch = "J" -> "j" [] ch = "K" -> "k" [] ch = "L" -> "l"
      [] ch = "M" -> "m" [] ch = "N" -> "n" [] ch = "O" -> "o" [] ch = "P" -> "p"
      [] ch = "Q" -> "q" [] ch = "R" -> "r" [] ch = "S" -> "s" [] ch = "T" -> "t"
      [] ch = "U" -> "u" [] ch = "V" -> "v" [] ch = "W" -> "w" [] ch = "X" -> "x"
      [] ch = "Y" -> "y" [] ch = "Z" -> "z" [] OTHER -> ch

\* str::to_lowercase
ToLowercase(s) == [i \in 1..Len(s) |-> LowerOf(s[i])]

DigitValue(ch) ==
    CASE ch = "0" -> 0 [] ch = "1" -> 1 [] ch = "2" -> 2 [] ch = "3" -> 3
      [] ch = "4" -> 4 [] ch = "5" -> 5 [] ch = "6" -> 6 [] ch = "7" -> 7
      [] ch = "8" -> 8 [] ch = "9" -> 9

RECURSIVE Str(_)
\* the String holding the characters of s
Str(s) == IF s = << >> THEN "" ELSE Head(s) \o Str(Tail(s))

-----------------------------------------------------------------------------
(* Natural numbers of any size, for the 53-bit significands of f64 and the *)
(* integers its operations pass through: the sequence of the digits of a   *)
(* number in base Base, least significant first, the last digit not 0;     *)
(* << >> is 0.                                                              *)

Base == 32768
BaseBits == 15

RECURSIVE Gcd(_, _)
Gcd(a, b) == IF b = 0 THEN a ELSE Gcd(b, a % b)

Abs(n) == IF n < 0 THEN -n ELSE n

Min(a, b) == IF a < b THEN a ELSE b

Max(a, b) == IF a < b THEN b ELSE a

RECURSIVE Pow2(_)
Pow2(k) == IF k = 0 THEN 1 ELSE 2 * Pow2(k - 1)

RECURSIVE Pow10(_)
Pow10(k) == IF k = 0 THEN 1 ELSE 10 * Pow10(k - 1)

RECURSIVE PowerOfTwo(_)
PowerOfTwo(d) == d = 1 \/ (d > 1 /\ d % 2 = 0 /\ PowerOfTwo(d \div 2))

RECURSIVE IntBitLen(_)
\* the number of bits of n >= 0
IntBitLen(n) == IF n = 0 THEN 0 ELSE 1 + IntBitLen(n \div 2)

RECURSIVE IntTrailing(_)
\* the number of zero bits at the end of n > 0
IntTrailing(n) == IF n % 2 = 1 THEN 0 ELSE 1 + IntTrailing(n \div 2)

RECURSIVE BigOf(_)
\* the number n >= 0
BigOf(n) == IF n = 0 THEN << >> ELSE << n % Base >> \o BigOf(n \div Base)

RECURSIVE BigToInt(_)
\* the integer a, for an a that is one
BigToInt(a) == IF a = << >> THEN 0 ELSE Head(a) + Base * BigToInt(Tail(a))

RECURSIVE Trim(_)
Trim(a) ==
    IF a # << >> /\ a[Len(a)] = 0 THEN Trim(SubSeq(a, 1, Len(a) - 1)) ELSE a

Limb(a, i) == IF i <= Len(a) THEN a[i] ELSE 0

RECURSIVE CmpFrom(_, _, _)
\* the digits i, i - 1, .. 1 of a against those of b: -1, 0 or 1
CmpFrom(a, b, i) ==
    IF i = 0 THEN 0
    ELSE IF a[i] # b[i] THEN (IF a[i] < b[i] THEN -1 ELSE 1)
    ELSE CmpFrom(a, b, i - 1)

\* a against b: -1, 0 or 1
BigCmp(a, b) ==
    IF Len(a) # Len(b) THEN (IF Len(a) < Len(b) THEN -1 ELSE 1)
    ELSE CmpFrom(a, b, Len(a))

RECURSIVE AddFrom(_, _, _, _)
AddFrom(a, b, i, carry) ==
    IF i > Len(a) /\ i > Len(b) THEN (IF carry = 0 THEN << >> ELSE << carry >>)
    ELSE << (Limb(a, i) + Limb(b, i) + carry) % Base >>
         \o AddFrom(a, b, i + 1, (Limb(a, i) + Limb(b, i) + carry) \div Base)

\* a + b
BigAdd(a, b) ==
    IF a = << >> THEN b ELSE IF b = << >> THEN a ELSE AddFrom(a, b, 1, 0)

RECURSIVE SubFrom(_, _, _, _)
SubFrom(a, b, i, borrow) ==
    IF i > Len(a) THEN << >>
    ELSE IF a[i] - Limb(b, i) - borrow < 0
    THEN << a[i] - Limb(b, i) - borrow + Base >> \o SubFrom(a, b, i + 1, 1)
    ELSE << a[i] - Limb(b, i) - borrow >> \o SubFrom(a, b, i + 1, 0)

\* a - b for a >= b
BigSub(a, b) == Trim(SubFrom(a, b, 1, 0))

RECURSIVE MulSmallFrom(_, _, _, _)
MulSmallFrom(a, k, i, carry) ==
    IF i > Len(a) THEN (IF carry = 0 THEN << >> ELSE << carry >>)
    ELSE << (a[i] * k + carry) % Base >>
         \o MulSmallFrom(a, k, i + 1, (a[i] * k + carry) \div Base)

\* a * k for 0 <= k <= Base
BigMulSmall(a, k) == IF k = 0 THEN << >> ELSE MulSmallFrom(a, k, 1, 0)

\* a * Base^n
ShiftLimbs(a, n) == IF a = << >> THEN << >> ELSE [j \in 1..n |-> 0] \o a

RECURSIVE MulFrom(_, _, _)
\* a times the digits i.. of b
MulFrom(a, b, i) ==
    IF i > Len(b) THEN << >>
    ELSE BigAdd(BigMulSmall(a, b[i]), ShiftLimbs(MulFrom(a, b, i + 1), 1))

\* a * b
BigMul(a, b) ==
    IF a = << >> THEN << >>
    ELSE IF Len(a) < Len(b) THEN MulFrom(b, a, 1)
    ELSE MulFrom(a, b, 1)

\* the quotient and the remainder of (hi.r * Base^n + limb) by k, hi being
\* those of the digits above limb
DivSmallStep(limb, hi, k) ==
    [q |-> << (hi.r * Base + limb) \div k >> \o hi.q,
     r |-> (hi.r * Base + limb) % k]

RECURSIVE DivSmall(_, _)
\* the quotient (untrimmed) and the remainder of a by k, 0 < k <= Base
DivSmall(a, k) ==
    IF a = << >> THEN [q |-> << >>, r |-> 0]
    ELSE DivSmallStep(Head(a), DivSmall(Tail(a), k), k)

\* the number of bits of a
BitLen(a) ==
    IF a = << >> THEN 0 ELSE (Len(a) - 1) * BaseBits + IntBitLen(a[Len(a)])

\* a * 2^s
ShiftLeft(a, s) ==
    ShiftLimbs(BigMulSmall(a, Pow2(s % BaseBits)), s \div BaseBits)

\* a \div 2^s
ShiftRight(a, s) ==
    IF s \div BaseBits >= Len(a) THEN << >>
    ELSE Trim(DivSmall(SubSeq(a, s \div BaseBits + 1, Len(a)),
                       Pow2(s % BaseBits)).q)

\* bit i of a (bit 0 is the last)
Bit(a, i) == (Limb(a, i \div BaseBits + 1) \div Pow2(i % BaseBits)) % 2

\* the last s bits of a are 0
LowBitsZero(a, s) ==
    /\ \A j \in 1..(s \div BaseBits) : Limb(a, j) = 0
    /\ Limb(a, s \div BaseBits + 1) % Pow2(s % BaseBits) = 0

RECURSIVE TrailingZeros(_)
\* the number of zero bits at the end of a # 0
TrailingZeros(a) ==
    IF Head(a) = 0 THEN BaseBits + TrailingZeros(Tail(a))
    ELSE IntTrailing(Head(a))

RECURSIVE DigitOf(_, _, _, _)
\* the largest d with b * d <= r, for r < b * Base: the bits j.. 0 after
\* those of d
DigitOf(r, b, d, j) ==
    IF j < 0 THEN d
    ELSE IF BigCmp(BigMulSmall(b, d + Pow2(j)), r) <= 0
    THEN DigitOf(r, b, d + Pow2(j), j - 1)
    ELSE DigitOf(r, b, d, j - 1)

RECURSIVE DivLimbs(_, _, _, _, _)
\* the digit d of the quotient after those of q, r being the remainder so
\* far
DivLimbsWith(a, b, i, q, r, d) ==
    IF d = 0 THEN DivLimbs(a, b, i - 1, << 0 >> \o q, r)
    ELSE DivLimbs(a, b, i - 1, << d >> \o q, BigSub(r, BigMulSmall(b, d)))

\* long division of a by b from the digit i of a down, q and r being the
\* quotient (untrimmed) and the remainder of the digits above
DivLimbs(a, b, i, q, r) ==
    IF i = 0 THEN [q |-> Trim(q), r |-> r]
    ELSE DivLimbsWith(a, b, i, q, Trim(<< a[i] >> \o r),
                      DigitOf(Trim(<< a[i] >> \o r), b, 0, BaseBits - 1))

\* the quotient and the remainder of a by b # 0
BigDivMod(a, b) == DivLimbs(a, b, Len(a), << >>, << >>)

-----------------------------------------------------------------------------
(* f64 values.  A finite value other than 0 is s * m * 2^e with s the sign  *)
(* (1 or -1), m an odd natural of at most 53 bits and -1074 <= e.  It is    *)
(* written << n, d >>, the quotient n/d in lowest terms with d a power of   *)
(* two, where |n| and d are at most MaxExact, and << "f64", s, m, e >>      *)
(* otherwise.  0.0 is << 0, 1 >>.  NaN, the infinities and -0.0 are the     *)
(* pairs below.                                                             *)

\* the bits of a significand
MantissaBits == 53
\* the least exponent of the last bit of a significand is -MinExponent
MinExponent == 1074
\* a finite value is less than 2^MaxExponent
MaxExponent == 1024

NaN == << 0, 0 >>
PosInf == << 1, 0 >>
NegInf == << -1, 0 >>
PosZero == << 0, 1 >>
NegZero == << 0, -1 >>
One == << 1, 1 >>

IsBig(v) == Len(v) = 4
IsNaN(v) == Len(v) = 2 /\ v = NaN
IsInf(v) == Len(v) = 2 /\ v[2] = 0 /\ v[1] # 0
\* a quotient n/d, +0.0 included
IsRational(v) == Len(v) = 2 /\ v[2] > 0

\* f64 == 0.0
IsZero(v) == Len(v) = 2 /\ v[1] = 0 /\ v[2] # 0

\* f64 == 1.0
IsOne(v) == v = One

\* the sign bit of a value other than NaN
SignBit(v) == IF IsBig(v) THEN v[2] < 0 ELSE v[1] < 0 \/ v = NegZero

Zero(negative) == IF negative THEN NegZero ELSE PosZero
Inf(negative) == IF negative THEN NegInf ELSE PosInf

Within(n, d) == Abs(n) <= MaxExact /\ d <= MaxExact

\* a quotient written << n, d >>
IsDyadic(v) == IsRational(v) /\ PowerOfTwo(v[2]) /\ Within(v[1], v[2])

\* the value s * m * 2^e for an odd m, where it is finite
PackOdd(s, m, e) ==
    IF BitLen(m) + e > MaxExponent THEN Inf(s < 0)
    ELSE IF e >= 0 /\ BitLen(m) + e <= BaseBits
            /\ BigToInt(m) * Pow2(e) <= MaxExact /\ MaxExact < Base
    THEN << s * BigToInt(m) * Pow2(e), 1 >>
    ELSE IF e < 0 /\ BitLen(m) <= BaseBits /\ -e <= BaseBits
            /\ Within(BigToInt(m), Pow2(-e)) /\ MaxExact < Base
    THEN << s * BigToInt(m), Pow2(-e) >>
    ELSE << "f64", s, m, e >>

\* the value s * m * 2^e for an m # 0 of at most 53 bits
Pack(s, m, e) ==
    PackOdd(s, ShiftRight(m, TrailingZeros(m)), e + TrailingZeros(m))

\* the value s * q * 2^e, or s * (q + 1) * 2^e if up
Rounded(s, q, e, up) ==
    IF ~up /\ q = << >> THEN Zero(s < 0)
    ELSE Pack(s, IF up THEN BigAdd(q, << 1 >>) ELSE q, e)

\* m without its last drop bits, rounded to nearest, ties to even; sticky
\* says that the exact value has bits after those of m
RoundAt(s, m, e, sticky, drop) ==
    Rounded(s, IF drop <= 0 THEN m ELSE ShiftRight(m, drop),
            IF drop <= 0 THEN e ELSE e + drop,
            /\ drop > 0
            /\ Bit(m, drop - 1) = 1
            /\ \/ sticky
               \/ ~LowBitsZero(m, drop - 1)
               \/ Bit(m, drop) = 1)

\* the f64 nearest to s * (m + f) * 2^e, m # 0 and 0 <= f < 1, f # 0 iff
\* sticky: the significand keeps 53 bits, fewer below 2^-1022
RoundPack(s, m, e, sticky) ==
    RoundAt(s, m, e, sticky,
            Max(BitLen(m) - MantissaBits, (-MinExponent) - e))

\* the f64 nearest to s * (dm.q + dm.r / b) * 2^e
RoundQuotient(s, dm, e) == RoundPack(s, dm.q, e, dm.r # << >>)

\* the f64 nearest to s * (a / b) * 2^e: the quotient is taken to 55 bits
\* at least
Quotient(s, a, b, e, k) ==
    RoundQuotient(s, BigDivMod(ShiftLeft(a, k), b), e - k)

QuotientF64(s, a, b, e) ==
    Quotient(s, a, b, e, Max(0, MantissaBits + 2 + BitLen(b) - BitLen(a)))

\* n/d in lowest terms, for d > 0
Lowest(n, d) == << n \div Gcd(Abs(n), d), d \div Gcd(Abs(n), d) >>

\* the f64 nearest to n/d, for d > 0
Rat(n, d) ==
    IF n = 0 THEN PosZero
    ELSE IF PowerOfTwo(Lowest(n, d)[2]) /\ Within(Lowest(n, d)[1], Lowest(n, d)[2])
    THEN Lowest(n, d)
    ELSE QuotientF64(IF n < 0 THEN -1 ELSE 1, BigOf(Abs(n)), BigOf(d), 0)

\* s, m and e of a finite value other than 0
Unpack(v) ==
    IF IsBig(v) THEN [s |-> v[2], m |-> v[3], e |-> v[4]]
    ELSE [s |-> IF v[1] < 0 THEN -1 ELSE 1, m |-> BigOf(Abs(v[1])),
          e |-> 1 - IntBitLen(v[2])]

\* x with an odd m
OddForm(x) ==
    [s |-> x.s, m |-> ShiftRight(x.m, TrailingZeros(x.m)),
     e |-> x.e + TrailingZeros(x.m)]

\* -v
Neg(v) ==
    IF IsBig(v) THEN << "f64", -v[2], v[3], v[4] >>
    ELSE IF v = NaN THEN NaN
    ELSE IF v = PosZero THEN NegZero
    ELSE IF v = NegZero THEN PosZero
    ELSE << -v[1], v[2] >>

\* the sum of sa * a * 2^e and sb * b * 2^e
AddAligned(sa, a, sb, b, e) ==
    IF sa # sb /\ BigCmp(a, b) = 0 THEN PosZero
    ELSE RoundPack(IF sa = sb \/ BigCmp(a, b) > 0 THEN sa ELSE sb,
                   IF sa = sb THEN BigAdd(a, b)
                   ELSE IF BigCmp(a, b) > 0 THEN BigSub(a, b)
                   ELSE BigSub(b, a),
                   e, FALSE)

\* x + y
AddUnpacked(x, y) ==
    AddAligned(x.s, ShiftLeft(x.m, x.e - Min(x.e, y.e)),
               y.s, ShiftLeft(y.m, y.e - Min(x.e, y.e)), Min(x.e, y.e))

\* x * y
MulUnpacked(x, y) == RoundPack(x.s * y.s, BigMul(x.m, y.m), x.e + y.e, FALSE)

\* x / y
DivUnpacked(x, y) == QuotientF64(x.s * y.s, x.m, y.m, x.e - y.e)

\* an integer that is odd, as an f64 other than NaN and the infinities
IsOddInteger(r) ==
    IF IsBig(r) THEN r[4] = 0
    ELSE IsRational(r) /\ r[2] = 1 /\ r[1] % 2 = 1

\* an f64 other than NaN and the infinities that is an integer
IsInteger(r) ==
    IF IsBig(r) THEN r[4] >= 0 ELSE IsZero(r) \/ (IsRational(r) /\ r[2] = 1)

\* l + r
AddF64(l, r) ==
    IF IsNaN(l) \/ IsNaN(r) THEN NaN
    ELSE IF IsInf(l) THEN (IF IsInf(r) /\ r # l THEN NaN ELSE l)
    ELSE IF IsInf(r) THEN r
    ELSE IF IsZero(l) /\ IsZero(r) THEN Zero(l = NegZero /\ r = NegZero)
    ELSE IF IsZero(r) THEN l
    ELSE IF IsZero(l) THEN r
    ELSE IF l = Neg(r) THEN PosZero
    ELSE IF IsDyadic(l) /\ IsDyadic(r)
            /\ Within(l[1] * r[2] + r[1] * l[2], l[2] * r[2])
    THEN Lowest(l[1] * r[2] + r[1] * l[2], l[2] * r[2])
    ELSE AddUnpacked(Unpack(l), Unpack(r))

\* l - r
SubF64(l, r) ==
    IF IsNaN(l) \/ IsNaN(r) THEN NaN
    ELSE AddF64(l, Neg(r))

\* l * r
MulF64(l, r) ==
    IF IsNaN(l) \/ IsNaN(r) THEN NaN
    ELSE IF IsInf(l) \/ IsInf(r)
    THEN IF IsZero(l) \/ IsZero(r) THEN NaN ELSE Inf(SignBit(l) # SignBit(r))
    ELSE IF IsZero(l) \/ IsZero(r) THEN Zero(SignBit(l) # SignBit(r))
    ELSE IF IsOne(l) THEN r
    ELSE IF IsOne(r) THEN l
    ELSE IF IsDyadic(l) /\ IsDyadic(r) /\ Within(l[1] * r[1], l[2] * r[2])
    THEN Lowest(l[1] * r[1], l[2] * r[2])
    ELSE MulUnpacked(Unpack(l), Unpack(r))

\* l / r
DivF64(l, r) ==
    IF IsNaN(l) \/ IsNaN(r) THEN NaN
    ELSE IF IsInf(l)
    THEN IF IsInf(r) THEN NaN ELSE Inf(SignBit(l) # SignBit(r))
    ELSE IF IsInf(r) THEN Zero(SignBit(l) # SignBit(r))
    ELSE IF IsZero(r)
    THEN IF IsZero(l) THEN NaN ELSE Inf(SignBit(l) # SignBit(r))
    ELSE IF IsZero(l) THEN Zero(SignBit(l) # SignBit(r))
    ELSE IF IsOne(r) THEN l
    ELSE IF l = r THEN One
    ELSE IF IsDyadic(l) /\ IsDyadic(r) /\ PowerOfTwo(Abs(r[1]))
            /\ Within(l[1] * r[2], l[2] * Abs(r[1]))
    THEN Lowest(IF r[1] < 0 THEN -(l[1] * r[2]) ELSE l[1] * r[2],
                l[2] * Abs(r[1]))
    ELSE DivUnpacked(Unpack(l), Unpack(r))

\* f64 < 0.0
IsNegative(v) == IF IsBig(v) THEN v[2] < 0 ELSE v[1] < 0

\* the part of x after the binary point, x not an integer
FractUnpacked(x) ==
    IF BitLen(x.m) <= -x.e THEN Pack(x.s, x.m, x.e)
    ELSE Pack(x.s, BigSub(x.m, ShiftLeft(ShiftRight(x.m, -x.e), -x.e)), x.e)

\* f64::fract: self - self.trunc()
Fract(v) ==
    IF IsNaN(v) \/ IsInf(v) THEN NaN
    ELSE IF IsInteger(v) THEN PosZero
    ELSE FractUnpacked(OddForm(Unpack(v)))

-----------------------------------------------------------------------------
(* f64::powf is the pow of the C library (libm).  pow is not correctly      *)
(* rounded; the model does what the pow of glibc does on x86-64 with fused  *)
(* multiply-add, operation by operation: log_inline gives the logarithm of  *)
(* |x| as a sum hi + lo of two f64, exp_inline the exponential of y * (hi   *)
(* + lo).  The tables are those of the library.                             *)

\* __pow_log_data: ln2hi and ln2lo
PowLogData ==
    << << 1, << 24391, 4287, 2839 >>, -42 >>,
       << 1, << 30323, 29304, 15573, 15 >>, -93 >> >>

\* __pow_log_data.poly: A[0] .. A[6]
PowLogPoly ==
    << << -1, << 1 >>, -1 >>,
       << -1, << 10923, 21845, 10922, 5 >>, -48 >>,
       << 1, << 3, 0, 0, 64 >>, -52 >>,
       << 1, << 10919, 6489, 13107, 102 >>, -52 >>,
       << -1, << 21053, 21801, 10922, 85 >>, -52 >>,
       << -1, << 17897, 13968, 9582, 146 >>, -52 >>,
       << 1, << 16323, 5708, 174, 128 >>, -52 >> >>

\* __pow_log_data.tab: invc, logc and logctail of the 128 subintervals
PowLogTab ==
    << << << 1, << 181 >>, -7 >>, << -1, << 22329, 8380, 2838 >>, -43 >>, << 1, << 28333, 4256, 21921, 1 >>, -93 >> >>,
       << << 1, << 45 >>, -5 >>, << -1, << 27393, 28527, 2792 >>, -43 >>, << -1, << 1977, 3470, 5281, 7 >>, -93 >> >>,
       << << 1, << 179 >>, -7 >>, << -1, << 26795, 7621, 2747 >>, -43 >>, << -1, << 20589, 11116, 2707, 155 >>, -97 >> >>,
       << << 1, << 89 >>, -6 >>, << -1, << 26047, 11105, 2701 >>, -43 >>, << -1, << 26581, 15712, 5010, 180 >>, -101 >> >>,
       << << 1, << 177 >>, -7 >>, << -1, << 12015, 6117, 2655 >>, -43 >>, << -1, << 18935, 6450, 877, 5 >>, -94 >> >>,
       << << 1, << 11 >>, -3 >>, << -1, << 4323, 6332, 652 >>, -41 >>, << 1, << 8499, 9254, 22575, 39 >>, -96 >> >>,
       << << 1, << 175 >>, -7 >>, << -1, << 20693, 3105, 2562 >>, -43 >>, << 1, << 1437, 28034, 1511, 113 >>, -101 >> >>,
       << << 1, << 87 >>, -6 >>, << -1, << 11561, 4885, 2515 >>, -43 >>, << 1, << 3235, 26725, 5688, 4 >>, -92 >> >>,
       << << 1, << 173 >>, -7 >>, << -1, << 13617, 8054, 154 >>, -39 >>, << 1, << 16457, 21701, 12955, 85 >>, -96 >> >>,
       << << 1, << 43 >>, -5 >>, << -1, << 22281, 3627, 605 >>, -41 >>, << 1, << 25979, 9837, 15759, 22 >>, -94 >> >>,
       << << 1, << 171 >>, -7 >>, << -1, << 31697, 22148, 2372 >>, -43 >>, << 1, << 12351, 28063, 10322, 174 >>, -98 >> >>,
       << << 1, << 171 >>, -7 >>, << -1, << 31697, 22148, 2372 >>, -43 >>, << 1, << 12351, 28063, 10322, 174 >>, -98 >> >>,
       << << 1, << 85 >>, -6 >>, << -1, << 31215, 20606, 2324 >>, -43 >>, << -1, << 27963, 10323, 13384, 89 >>, -97 >> >>,
       << << 1, << 169 >>, -7 >>, << -1, << 11571, 9776, 2276 >>, -43 >>, << -1, << 21761, 13427, 12220, 63 >>, -96 >> >>,
       << << 1, << 21 >>, -4 >>, << -1, << 30069, 22314, 2227 >>, -43 >>, << 1, << 10895, 18032, 18417, 15 >>, -94 >> >>,
       << << 1, << 167 >>, -7 >>, << -1, << 13769, 25342, 2178 >>, -43 >>, << -1, << 11571, 32005, 20873, 90 >>, -96 >> >>,
       << << 1, << 83 >>, -6 >>, << -1, << 10041, 25756, 1064 >>, -42 >>, << -1, << 391, 32500, 22492, 113 >>, -98 >> >>,
       << << 1, << 165 >>, -7 >>, << -1, << 19277, 1202, 1040 >>, -42 >>, << -1, << 11647, 15848, 23266, 129 >>, -100 >> >>,
       << << 1, << 165 >>, -7 >>, << -1, << 19277, 1202, 1040 >>, -42 >>, << -1, << 11647, 15848, 23266, 129 >>, -100 >> >>,
       << << 1, << 41 >>, -5 >>, << -1, << 13689, 18627, 507 >>, -41 >>, << 1, << 15495, 22322, 23722, 234 >>, -99 >> >>,
       << << 1, << 163 >>, -7 >>, << -1, << 24291, 2780, 990 >>, -42 >>, << 1, << 11209, 20035, 9911, 54 >>, -95 >> >>,
       << << 1, << 81 >>, -6 >>, << -1, << 25263, 24813, 1929 >>, -43 >>, << -1, << 32753, 27271, 19411, 11 >>, -94 >> >>,
       << << 1, << 161 >>, -7 >>, << -1, << 11583, 24843, 469 >>, -41 >>, << 1, << 26651, 30612, 27206, 141 >>, -97 >> >>,
       << << 1, << 5 >>, -2 >>, << -1, << 15573, 32636, 913 >>, -42 >>, << 1, << 24845, 13391, 31055, 46 >>, -95 >> >>,
       << << 1, << 5 >>, -2 >>, << -1, << 15573, 32636, 913 >>, -42 >>, << 1, << 24845, 13391, 31055, 46 >>, -95 >> >>,
       << << 1, << 159 >>, -7 >>, << -1, << 17113, 20686, 1776 >>, -43 >>, << 1, << 14223, 25367, 15040, 202 >>, -98 >> >>,
       << << 1, << 79 >>, -6 >>, << -1, << 14851, 7754, 431 >>, -41 >>, << 1, << 18483, 16333, 7366, 105 >>, -103 >> >>,
       << << 1, << 157 >>, -7 >>, << -1, << 32299, 30595, 1672 >>, -43 >>, << -1, << 24821, 23622, 6345, 86 >>, -96 >> >>,
       << << 1, << 157 >>, -7 >>, << -1, << 32299, 30595, 1672 >>, -43 >>, << -1, << 24821, 23622, 6345, 86 >>, -96 >> >>,
       << << 1, << 39 >>, -5 >>, << -1, << 20293, 19283, 1620 >>, -43 >>, << -1, << 21731, 2435, 18276, 214 >>, -97 >> >>,
       << << 1, << 155 >>, -7 >>, << -1, << 21005, 29708, 1567 >>, -43 >>, << 1, << 31241, 32695, 30461, 221 >>, -97 >> >>,
       << << 1, << 77 >>, -6 >>, << -1, << 4231, 14480, 757 >>, -42 >>, << 1, << 26955, 7316, 28104, 27 >>, -94 >> >>,
       << << 1, << 77 >>, -6 >>, << -1, << 4231, 14480, 757 >>, -42 >>, << 1, << 26955, 7316, 28104, 27 >>, -94 >> >>,
       << << 1, << 153 >>, -7 >>, << -1, << 29085, 16892, 1461 >>, -43 >>, << -1, << 28979, 9138, 18645, 67 >>, -97 >> >>,
       << << 1, << 19 >>, -4 >>, << -1, << 2681, 26126, 1407 >>, -43 >>, << -1, << 20537, 15904, 30990, 244 >>, -98 >> >>,
       << << 1, << 19 >>, -4 >>, << -1, << 2681, 26126, 1407 >>, -43 >>, << -1, << 20537, 15904, 30990, 244 >>, -98 >> >>,
       << << 1, << 151 >>, -7 >>, << -1, << 14875, 23740, 1353 >>, -43 >>, << -1, << 23439, 8206, 31278, 134 >>, -97 >> >>,
       << << 1, << 75 >>, -6 >>, << -1, << 22935, 13485, 162 >>, -40 >>, << 1, << 24079, 12442, 3265, 46 >>, -96 >> >>,
       << << 1, << 75 >>, -6 >>, << -1, << 22935, 13485, 162 >>, -40 >>, << 1, << 24079, 12442, 3265, 46 >>, -96 >> >>,
       << << 1, << 149 >>, -7 >>, << -1, << 489, 16260, 1244 >>, -43 >>, << 1, << 10781, 19751, 28940, 69 >>, -99 >> >>,
       << << 1, << 37 >>, -5 >>, << -1, << 511, 10847, 1189 >>, -43 >>, << -1, << 14465, 1500, 18072, 20 >>, -94 >> >>,
       << << 1, << 147 >>, -7 >>, << -1, << 10619, 29357, 566 >>, -42 >>, << -1, << 20939, 6161, 328, 122 >>, -96 >> >>,
       << << 1, << 147 >>, -7 >>, << -1, << 10619, 29357, 566 >>, -42 >>, << -1, << 20939, 6161, 328, 122 >>, -96 >> >>,
       << << 1, << 73 >>, -6 >>, << -1, << 19721, 28623, 1077 >>, -43 >>, << 1, << 5885, 17524, 27030, 52 >>, -97 >> >>,
       << << 1, << 73 >>, -6 >>, << -1, << 19721, 28623, 1077 >>, -43 >>, << 1, << 5885, 17524, 27030, 52 >>, -97 >> >>,
       << << 1, << 145 >>, -7 >>, << -1, << 3807, 18707, 1021 >>, -43 >>, << -1, << 6649, 23715, 27304, 85 >>, -96 >> >>,
       << << 1, << 9 >>, -3 >>, << -1, << 28203, 19982, 120 >>, -40 >>, << 1, << 15, 5496, 13356, 52 >>, -95 >> >>,
       << << 1, << 9 >>, -3 >>, << -1, << 28203, 19982, 120 >>, -40 >>, << 1, << 15, 5496, 13356, 52 >>, -95 >> >>,
       << << 1, << 143 >>, -7 >>, << -1, << 15727, 29348, 453 >>, -42 >>, << -1, << 24323, 22623, 6318, 116 >>, -97 >> >>,
       << << 1, << 71 >>, -6 >>, << -1, << 21079, 9939, 850 >>, -43 >>, << 1, << 30041, 31254, 7322, 21 >>, -94 >> >>,
       << << 1, << 71 >>, -6 >>, << -1, << 21079, 9939, 850 >>, -43 >>, << 1, << 30041, 31254, 7322, 21 >>, -94 >> >>,
       << << 1, << 141 >>, -7 >>, << -1, << 12685, 13405, 792 >>, -43 >>, << 1, << 27341, 21323, 15892, 19 >>, -95 >> >>,
       << << 1, << 141 >>, -7 >>, << -1, << 12685, 13405, 792 >>, -43 >>, << 1, << 27341, 21323, 15892, 19 >>, -95 >> >>,
       << << 1, << 35 >>, -5 >>, << -1, << 22315, 3368, 734 >>, -43 >>, << -1, << 14829, 18739, 11887, 90 >>, -96 >> >>,
       << << 1, << 139 >>, -7 >>, << -1, << 30769, 12403, 675 >>, -43 >>, << 1, << 24151, 17292, 2413, 248 >>, -98 >> >>,
       << << 1, << 139 >>, -7 >>, << -1, << 30769, 12403, 675 >>, -43 >>, << 1, << 24151, 17292, 2413, 248 >>, -98 >> >>,
       << << 1, << 69 >>, -6 >>, << -1, << 12511, 7545, 616 >>, -43 >>, << 1, << 5087, 6642, 31595, 226 >>, -97 >> >>,
       << << 1, << 69 >>, -6 >>, << -1, << 12511, 7545, 616 >>, -43 >>, << 1, << 5087, 6642, 31595, 226 >>, -97 >> >>,
       << << 1, << 137 >>, -7 >>, << -1, << 23879, 5339, 139 >>, -41 >>, << 1, << 8969, 27935, 29049, 163 >>, -98 >> >>,
       << << 1, << 17 >>, -4 >>, << -1, << 35, 10435, 248 >>, -42 >>, << 1, << 3729, 1645, 26234, 234 >>, -97 >> >>,
       << << 1, << 17 >>, -4 >>, << -1, << 35, 10435, 248 >>, -42 >>, << 1, << 3729, 1645, 26234, 234 >>, -97 >> >>,
       << << 1, << 135 >>, -7 >>, << -1, << 25139, 2933, 218 >>, -42 >>, << 1, << 7187, 29419, 634, 57 >>, -96 >> >>,
       << << 1, << 135 >>, -7 >>, << -1, << 25139, 2933, 218 >>, -42 >>, << 1, << 7187, 29419, 634, 57 >>, -96 >> >>,
       << << 1, << 67 >>, -6 >>, << -1, << 22731, 8903, 375 >>, -43 >>, << -1, << 20727, 13554, 30860, 115 >>, -96 >> >>,
       << << 1, << 67 >>, -6 >>, << -1, << 22731, 8903, 375 >>, -43 >>, << -1, << 20727, 13554, 30860, 115 >>, -96 >> >>,
       << << 1, << 133 >>, -7 >>, << -1, << 26619, 29757, 313 >>, -43 >>, << 1, << 32597, 29990, 1391, 84 >>, -99 >> >>,
       << << 1, << 133 >>, -7 >>, << -1, << 26619, 29757, 313 >>, -43 >>, << 1, << 32597, 29990, 1391, 84 >>, -99 >> >>,
       << << 1, << 33 >>, -5 >>, << -1, << 25039, 24742, 15 >>, -39 >>, << -1, << 633, 15935, 38, 51 >>, -95 >> >>,
       << << 1, << 33 >>, -5 >>, << -1, << 25039, 24742, 15 >>, -39 >>, << -1, << 633, 15935, 38, 51 >>, -95 >> >>,
       << << 1, << 131 >>, -7 >>, << -1, << 4011, 25708, 189 >>, -43 >>, << -1, << 9785, 10229, 13650, 196 >>, -97 >> >>,
       << << 1, << 65 >>, -6 >>, << -1, << 11327, 24660, 31 >>, -41 >>, << -1, << 27047, 31593, 7804, 62 >>, -100 >> >>,
       << << 1, << 65 >>, -6 >>, << -1, << 11327, 24660, 31 >>, -41 >>, << -1, << 27047, 31593, 7804, 62 >>, -100 >> >>,
       << << 1, << 129 >>, -7 >>, << -1, << 9905, 31749, 7 >>, -40 >>, << -1, << 4153, 1773, 25151, 51 >>, -96 >> >>,
       << << 1, << 129 >>, -7 >>, << -1, << 9905, 31749, 7 >>, -40 >>, << -1, << 4153, 1773, 25151, 51 >>, -96 >> >>,
       << << 1, << 1 >>, 0 >>, << 1, << >>, 0 >>, << 1, << >>, 0 >> >>,
       << << 1, << 1 >>, 0 >>, << 1, << >>, 0 >>, << 1, << >>, 0 >> >>,
       << << 1, << 127 >>, -7 >>, << 1, << 30089, 8234, 64 >>, -43 >>, << -1, << 9597, 26215, 25525, 16 >>, -95 >> >>,
       << << 1, << 63 >>, -6 >>, << 1, << 12583, 345, 129 >>, -43 >>, << -1, << 31721, 1762, 14518, 79 >>, -96 >> >>,
       << << 1, << 125 >>, -7 >>, << 1, << 10441, 4682, 97 >>, -42 >>, << -1, << 781, 6445, 8378, 53 >>, -95 >> >>,
       << << 1, << 31 >>, -5 >>, << 1, << 10141, 2796, 260 >>, -43 >>, << 1, << 22355, 14819, 18177, 136 >>, -99 >> >>,
       << << 1, << 123 >>, -7 >>, << 1, << 27159, 26286, 40 >>, -40 >>, << -1, << 16293, 23919, 2873, 28 >>, -94 >> >>,
       << << 1, << 61 >>, -6 >>, << 1, << 21119, 9552, 393 >>, -43 >>, << -1, << 9853, 8372, 26199, 203 >>, -98 >> >>,
       << << 1, << 121 >>, -7 >>, << 1, << 14199, 23454, 460 >>, -43 >>, << -1, << 10247, 4016, 9161, 211 >>, -98 >> >>,
       << << 1, << 241 >>, -8 >>, << 1, << 27, 20878, 494 >>, -43 >>, << -1, << 15227, 8082, 17657, 240 >>, -99 >> >>,
       << << 1, << 239 >>, -8 >>, << 1, << 2611, 29629, 562 >>, -43 >>, << -1, << 7835, 11291, 18805, 169 >>, -97 >> >>,
       << << 1, << 237 >>, -8 >>, << 1, << 16015, 24410, 631 >>, -43 >>, << 1, << 20183, 19382, 8570, 230 >>, -97 >> >>,
       << << 1, << 235 >>, -8 >>, << 1, << 27837, 5540, 701 >>, -43 >>, << -1, << 3727, 15453, 21004, 113 >>, -96 >> >>,
       << << 1, << 117 >>, -7 >>, << 1, << 11179, 1688, 368 >>, -42 >>, << 1, << 30361, 10653, 15643, 112 >>, -100 >> >>,
       << << 1, << 29 >>, -5 >>, << 1, << 30053, 6898, 403 >>, -42 >>, << 1, << 9197, 15037, 8888, 76 >>, -96 >> >>,
       << << 1, << 115 >>, -7 >>, << 1, << 28011, 11400, 877 >>, -43 >>, << -1, << 26853, 22510, 16896, 156 >>, -98 >> >>,
       << << 1, << 229 >>, -8 >>, << 1, << 1777, 17088, 456 >>, -42 >>, << 1, << 11475, 3253, 6983, 178 >>, -97 >> >>,
       << << 1, << 227 >>, -8 >>, << 1, << 6225, 29592, 984 >>, -43 >>, << -1, << 12847, 2814, 14349, 7 >>, -92 >> >>,
       << << 1, << 113 >>, -7 >>, << 1, << 20191, 2323, 1021 >>, -43 >>, << -1, << 2813, 8002, 21337, 169 >>, -97 >> >>,
       << << 1, << 7 >>, -3 >>, << 1, << 4415, 30952, 546 >>, -42 >>, << 1, << 1017, 20013, 24305, 71 >>, -96 >> >>,
       << << 1, << 223 >>, -8 >>, << 1, << 25151, 17775, 1130 >>, -43 >>, << 1, << 9805, 8732, 10126, 57 >>, -95 >> >>,
       << << 1, << 221 >>, -8 >>, << 1, << 6413, 17796, 150 >>, -40 >>, << 1, << 13473, 5891, 30131, 156 >>, -99 >> >>,
       << << 1, << 55 >>, -6 >>, << 1, << 345, 16278, 1241 >>, -43 >>, << 1, << 29321, 18070, 16032, 177 >>, -103 >> >>,
       << << 1, << 109 >>, -7 >>, << 1, << 13115, 10160, 1316 >>, -43 >>, << 1, << 14031, 21823, 16828, 21 >>, -94 >> >>,
       << << 1, << 217 >>, -8 >>, << 1, << 18971, 31932, 1353 >>, -43 >>, << 1, << 32199, 19154, 20387, 177 >>, -97 >> >>,
       << << 1, << 215 >>, -8 >>, << 1, << 26817, 27095, 1429 >>, -43 >>, << 1, << 1487, 19215, 26565, 25 >>, -95 >> >>,
       << << 1, << 107 >>, -7 >>, << 1, << 14167, 593, 1468 >>, -43 >>, << -1, << 8673, 19256, 17975, 168 >>, -97 >> >>,
       << << 1, << 213 >>, -8 >>, << 1, << 21573, 12720, 1506 >>, -43 >>, << -1, << 17157, 24866, 6209, 227 >>, -98 >> >>,
       << << 1, << 211 >>, -8 >>, << 1, << 27449, 32095, 98 >>, -39 >>, << -1, << 11473, 21970, 30034, 185 >>, -99 >> >>,
       << << 1, << 105 >>, -7 >>, << 1, << 23799, 13493, 101 >>, -39 >>, << 1, << 32623, 12609, 18593, 191 >>, -99 >> >>,
       << << 1, << 13 >>, -4 >>, << 1, << 25687, 16083, 850 >>, -42 >>, << -1, << 8553, 8364, 18701, 195 >>, -97 >> >>,
       << << 1, << 207 >>, -8 >>, << 1, << 30141, 15114, 1740 >>, -43 >>, << -1, << 28885, 20140, 27418, 112 >>, -98 >> >>,
       << << 1, << 103 >>, -7 >>, << 1, << 16863, 2163, 890 >>, -42 >>, << -1, << 2395, 22868, 6024, 117 >>, -96 >> >>,
       << << 1, << 205 >>, -8 >>, << 1, << 28417, 32632, 1819 >>, -43 >>, << -1, << 5609, 17814, 22757, 71 >>, -99 >> >>,
       << << 1, << 203 >>, -8 >>, << 1, << 3401, 10166, 1900 >>, -43 >>, << -1, << 12341, 28203, 31915, 215 >>, -97 >> >>,
       << << 1, << 101 >>, -7 >>, << 1, << 32369, 25055, 1940 >>, -43 >>, << 1, << 8003, 27656, 1161, 9 >>, -99 >> >>,
       << << 1, << 201 >>, -8 >>, << 1, << 25821, 27483, 123 >>, -39 >>, << -1, << 3601, 19319, 1109, 209 >>, -103 >> >>,
       << << 1, << 25 >>, -5 >>, << 1, << 19259, 9101, 2022 >>, -43 >>, << 1, << 19955, 6465, 29435, 13 >>, -94 >> >>,
       << << 1, << 99 >>, -7 >>, << 1, << 2475, 19992, 2104 >>, -43 >>, << 1, << 20113, 11738, 29548, 196 >>, -100 >> >>,
       << << 1, << 197 >>, -8 >>, << 1, << 15115, 17110, 536 >>, -41 >>, << 1, << 27369, 11385, 25132, 184 >>, -97 >> >>,
       << << 1, << 49 >>, -6 >>, << 1, << 17661, 25504, 2187 >>, -43 >>, << -1, << 31751, 12754, 8462, 56 >>, -95 >> >>,
       << << 1, << 195 >>, -8 >>, << 1, << 30111, 22322, 2229 >>, -43 >>, << 1, << 5761, 28490, 27447, 220 >>, -97 >> >>,
       << << 1, << 97 >>, -7 >>, << 1, << 27469, 26200, 2271 >>, -43 >>, << 1, << 15799, 8847, 7093, 229 >>, -97 >> >>,
       << << 1, << 193 >>, -8 >>, << 1, << 8663, 4443, 2314 >>, -43 >>, << 1, << 23925, 14918, 4029, 106 >>, -98 >> >>,
       << << 1, << 191 >>, -8 >>, << 1, << 19913, 24079, 1199 >>, -42 >>, << 1, << 317, 9512, 7418, 53 >>, -95 >> >>,
       << << 1, << 95 >>, -7 >>, << 1, << 3739, 20254, 610 >>, -41 >>, << -1, << 10135, 13512, 28989, 24 >>, -94 >> >>,
       << << 1, << 189 >>, -8 >>, << 1, << 27617, 27886, 1242 >>, -42 >>, << 1, << 12025, 27708, 14182, 17 >>, -95 >> >>,
       << << 1, << 47 >>, -6 >>, << 1, << 29491, 19022, 1264 >>, -42 >>, << 1, << 12119, 23299, 15188, 48 >>, -96 >> >>,
       << << 1, << 187 >>, -8 >>, << 1, << 31421, 27912, 2572 >>, -43 >>, << 1, << 24733, 22817, 4315, 199 >>, -99 >> >>,
       << << 1, << 93 >>, -7 >>, << 1, << 20025, 25456, 2616 >>, -43 >>, << -1, << 22133, 4815, 7992, 249 >>, -97 >> >>,
       << << 1, << 185 >>, -8 >>, << 1, << 24947, 15379, 1330 >>, -42 >>, << -1, << 13865, 3461, 8329, 60 >>, -95 >> >>,
       << << 1, << 23 >>, -5 >>, << 1, << 14789, 10976, 676 >>, -41 >>, << 1, << 18265, 713, 31170, 245 >>, -97 >> >>,
       << << 1, << 183 >>, -8 >>, << 1, << 15501, 32490, 1374 >>, -42 >>, << 1, << 16623, 23738, 14263, 253 >>, -98 >> >>,
       << << 1, << 91 >>, -7 >>, << 1, << 31435, 23517, 698 >>, -41 >>, << -1, << 6519, 1106, 2858, 52 >>, -97 >> >> >>

\* __exp_data: invln2N, shift, negln2hiN and negln2loN
ExpData ==
    << << 1, << 16767, 25899, 10894, 92 >>, -44 >>,
       << 1, << 3 >>, 51 >>,
       << -1, << 32637, 11842, 44 >>, -43 >>,
       << -1, << 7581, 15518, 28469, 115 >>, -98 >> >>

\* __exp_data.poly: C2 .. C5
ExpPoly ==
    << << 1, << 32189, 32767, 32767, 255 >>, -54 >>,
       << 1, << 21775, 10922, 21845, 42 >>, -53 >>,
       << 1, << 11153, 7726, 21847, 170 >>, -57 >>,
       << 1, << 20503, 20297, 17477, 136 >>, -59 >> >>

\* __exp_data.tab: the tail and the f64 of 2^(j/128), j = 0 .. 127
ExpTab ==
    << << << 1, << >>, 0 >>, << 1, << 1 >>, 0 >> >>,
       << << 1, << 24503, 6792, 30366, 108 >>, -105 >>, << 1, << 13109, 21494, 22774, 128 >>, -52 >> >>,
       << << -1, << 23645, 14769, 78, 139 >>, -108 >>, << 1, << 97, 31983, 12904, 129 >>, -52 >> >>,
       << << -1, << 26321, 8462, 31208, 130 >>, -106 >>, << 1, << 32645, 20700, 3159, 130 >>, -52 >> >>,
       << << 1, << 30227, 27343, 18760, 230 >>, -107 >>, << 1, << 24925, 27018, 22960, 32 >>, -50 >> >>,
       << << -1, << 18301, 9209, 7424, 111 >>, -106 >>, << 1, << 31599, 10717, 24790, 65 >>, -51 >> >>,
       << << 1, << 18529, 17357, 23865, 135 >>, -109 >>, << 1, << 13177, 17949, 17314, 16 >>, -49 >> >>,
       << << 1, << 21401, 13927, 3985, 133 >>, -106 >>, << 1, << 29571, 5517, 30971, 132 >>, -52 >> >>,
       << << 1, << 31597, 15110, 27289, 188 >>, -106 >>, << 1, << 2319, 23027, 21857, 133 >>, -52 >> >>,
       << << 1, << 31743, 18814, 13594, 61 >>, -105 >>, << 1, << 18423, 22244, 12872, 134 >>, -52 >> >>,
       << << 1, << 7377, 24671, 30965, 245 >>, -112 >>, << 1, << 26833, 13011, 18392, 67 >>, -51 >> >>,
       << << -1, << 28171, 4896, 3282, 208 >>, -109 >>, << 1, << 21275, 24573, 28058, 135 >>, -52 >> >>,
       << << -1, << 24199, 10799, 11428, 85 >>, -105 >>, << 1, << 23377, 8228, 19463, 136 >>, -52 >> >>,
       << << -1, << 27221, 6301, 958, 132 >>, -110 >>, << 1, << 3187, 24630, 10941, 34 >>, -50 >> >>,
       << << -1, << 31243, 14805, 4679, 71 >>, -105 >>, << 1, << 18799, 10986, 10323, 4 >>, -47 >> >>,
       << << 1, << 21935, 21176, 20367, 134 >>, -107 >>, << 1, << 3665, 4427, 27235, 138 >>, -52 >> >>,
       << << -1, << 12905, 31401, 3466, 16 >>, -104 >>, << 1, << 20859, 30970, 19168, 139 >>, -52 >> >>,
       << << -1, << 12861, 11196, 32705, 248 >>, -107 >>, << 1, << 18165, 14476, 5618, 70 >>, -51 >> >>,
       << << 1, << 21439, 32294, 9776, 220 >>, -107 >>, << 1, << 19317, 22239, 3439, 141 >>, -52 >> >>,
       << << -1, << 30099, 30225, 13112, 91 >>, -105 >>, << 1, << 5941, 16898, 15328, 35 >>, -50 >> >>,
       << << 1, << 20859, 29667, 23966, 6 >>, -101 >>, << 1, << 23765, 12648, 10510, 71 >>, -51 >> >>,
       << << -1, << 14493, 5900, 7691, 255 >>, -107 >>, << 1, << 22813, 17913, 13632, 143 >>, -52 >> >>,
       << << 1, << 17293, 2381, 15621, 211 >>, -107 >>, << 1, << 18027, 2146, 3191, 72 >>, -51 >> >>,
       << << 1, << 1149, 25032, 26646, 131 >>, -107 >>, << 1, << 28235, 4477, 16019, 72 >>, -51 >> >>,
       << << 1, << 10789, 29140, 3837, 45 >>, -104 >>, << 1, << 11335, 7069, 7229, 18 >>, -49 >> >>,
       << << 1, << 18557, 25832, 30819, 186 >>, -107 >>, << 1, << 9791, 8037, 18233, 146 >>, -52 >> >>,
       << << 1, << 29689, 6175, 3671, 65 >>, -106 >>, << 1, << 31965, 19396, 11541, 147 >>, -52 >> >>,
       << << -1, << 1071, 16241, 28918, 90 >>, -105 >>, << 1, << 25473, 17386, 4991, 148 >>, -52 >> >>,
       << << 1, << 11057, 23059, 24453, 151 >>, -107 >>, << 1, << 24289, 27199, 31351, 148 >>, -52 >> >>,
       << << -1, << 24573, 6767, 17206, 116 >>, -111 >>, << 1, << 11673, 31259, 11807, 9 >>, -48 >> >>,
       << << 1, << 685, 14598, 14210, 54 >>, -105 >>, << 1, << 779, 19912, 18966, 150 >>, -52 >> >>,
       << << 1, << 19343, 5021, 21066, 240 >>, -109 >>, << 1, << 6059, 10558, 22879, 75 >>, -51 >> >>,
       << << 1, << 21979, 19888, 6890, 77 >>, -106 >>, << 1, << 14101, 5219, 7160, 152 >>, -52 >> >>,
       << << 1, << 7443, 29014, 16897, 44 >>, -105 >>, << 1, << 22577, 30873, 1475, 153 >>, -52 >> >>,
       << << 1, << 31781, 24019, 14962, 127 >>, -106 >>, << 1, << 5887, 25800, 28706, 153 >>, -52 >> >>,
       << << -1, << 5825, 7623, 9088, 45 >>, -105 >>, << 1, << 8177, 16165, 23317, 154 >>, -52 >> >>,
       << << -1, << 27149, 29458, 9590, 18 >>, -103 >>, << 1, << 10699, 28277, 18076, 155 >>, -52 >> >>,
       << << -1, << 5831, 6993, 4080, 100 >>, -105 >>, << 1, << 27699, 27909, 6492, 78 >>, -51 >> >>,
       << << -1, << 7017, 16020, 9168, 71 >>, -107 >>, << 1, << 8183, 27083, 8044, 157 >>, -52 >> >>,
       << << -1, << 6933, 26524, 25702, 200 >>, -106 >>, << 1, << 10469, 1575, 3255, 158 >>, -52 >> >>,
       << << 1, << 19565, 20052, 32034, 172 >>, -107 >>, << 1, << 6673, 19474, 15692, 79 >>, -51 >> >>,
       << << -1, << 13509, 31272, 9408, 76 >>, -105 >>, << 1, << 8199, 598, 31301, 39 >>, -50 >> >>,
       << << -1, << 2395, 4143, 7741, 197 >>, -110 >>, << 1, << 5909, 8695, 11284, 80 >>, -51 >> >>,
       << << -1, << 6683, 20115, 12909, 225 >>, -108 >>, << 1, << 10391, 12961, 18391, 161 >>, -52 >> >>,
       << << 1, << 11281, 16773, 4021, 155 >>, -111 >>, << 1, << 2349, 16579, 14369, 162 >>, -52 >> >>,
       << << 1, << 25839, 30220, 6180, 179 >>, -106 >>, << 1, << 87, 23098, 10503, 163 >>, -52 >> >>,
       << << 1, << 889, 13634, 13191, 246 >>, -109 >>, << 1, << 5069, 22200, 8616, 10 >>, -48 >> >>,
       << << 1, << 28963, 18401, 32739, 9 >>, -102 >>, << 1, << 27119, 28887, 18005, 82 >>, -51 >> >>,
       << << 1, << 11003, 22383, 9267, 11 >>, -104 >>, << 1, << 10791, 10860, 32619, 165 >>, -52 >> >>,
       << << 1, << 24695, 22185, 30455, 152 >>, -106 >>, << 1, << 23821, 13307, 29386, 166 >>, -52 >> >>,
       << << -1, << 20935, 113, 10344, 126 >>, -106 >>, << 1, << 11431, 27962, 26313, 167 >>, -52 >> >>,
       << << -1, << 9033, 14631, 31539, 190 >>, -107 >>, << 1, << 13089, 8911, 11701, 84 >>, -51 >> >>,
       << << -1, << 14431, 31262, 31514, 198 >>, -108 >>, << 1, << 10177, 22173, 26710, 84 >>, -51 >> >>,
       << << -1, << 11899, 27771, 9357, 88 >>, -106 >>, << 1, << 4623, 5307, 18067, 170 >>, -52 >> >>,
       << << 1, << 27591, 6397, 27146, 76 >>, -105 >>, << 1, << 5101, 14005, 24206, 85 >>, -51 >> >>,
       << << 1, << 6917, 24341, 25308, 220 >>, -108 >>, << 1, << 18429, 10543, 13387, 172 >>, -52 >> >>,
       << << 1, << 21513, 17464, 3975, 131 >>, -106 >>, << 1, << 21545, 14992, 11295, 173 >>, -52 >> >>,
       << << 1, << 25461, 20505, 3850, 83 >>, -111 >>, << 1, << 18103, 5298, 9370, 174 >>, -52 >> >>,
       << << 1, << 16437, 22217, 19352, 161 >>, -106 >>, << 1, << 9257, 17771, 29623, 21 >>, -49 >> >>,
       << << -1, << 30367, 17202, 4393, 231 >>, -107 >>, << 1, << 23561, 29421, 6022, 176 >>, -52 >> >>,
       << << -1, << 27061, 20219, 6626, 28 >>, -104 >>, << 1, << 21893, 24692, 4602, 177 >>, -52 >> >>,
       << << -1, << 29911, 2347, 9969, 81 >>, -106 >>, << 1, << 26137, 25420, 18536, 5 >>, -47 >> >>,
       << << -1, << 19211, 24085, 26478, 19 >>, -103 >>, << 1, << 8741, 1194, 2274, 179 >>, -52 >> >>,
       << << 1, << 1625, 16447, 4266, 46 >>, -108 >>, << 1, << 10611, 10393, 1367, 180 >>, -52 >> >>,
       << << -1, << 17477, 28631, 23031, 19 >>, -103 >>, << 1, << 15309, 19710, 633, 181 >>, -52 >> >>,
       << << -1, << 23745, 1844, 9563, 104 >>, -108 >>, << 1, << 23231, 27159, 73, 182 >>, -52 >> >>,
       << << -1, << 21751, 14445, 20447, 77 >>, -108 >>, << 1, << 6703, 30922, 32456, 182 >>, -52 >> >>,
       << << -1, << 2129, 10689, 28917, 134 >>, -107 >>, << 1, << 25889, 31912, 32637, 45 >>, -50 >> >>,
       << << -1, << 16079, 31924, 32145, 192 >>, -108 >>, << 1, << 6109, 29814, 8053, 46 >>, -50 >> >>,
       << << -1, << 14299, 22545, 15250, 11 >>, -103 >>, << 1, << 24669, 9298, 16282, 46 >>, -50 >> >>,
       << << -1, << 29509, 7765, 12900, 88 >>, -106 >>, << 1, << 26569, 11396, 32685, 186 >>, -52 >> >>,
       << << 1, << 21715, 15379, 29485, 132 >>, -106 >>, << 1, << 23871, 8124, 421, 188 >>, -52 >> >>,
       << << -1, << 9501, 29339, 19314, 217 >>, -108 >>, << 1, << 391, 26582, 1105, 189 >>, -52 >> >>,
       << << 1, << 16491, 10447, 13301, 167 >>, -106 >>, << 1, << 24729, 304, 986, 95 >>, -51 >> >>,
       << << 1, << 27733, 22444, 12166, 175 >>, -109 >>, << 1, << 10033, 14031, 17894, 95 >>, -51 >> >>,
       << << -1, << 26529, 12211, 17290, 98 >>, -106 >>, << 1, << 3337, 21566, 2126, 96 >>, -51 >> >>,
       << << -1, << 19917, 30877, 27062, 38 >>, -104 >>, << 1, << 19987, 12953, 5670, 193 >>, -52 >> >>,
       << << -1, << 32655, 14873, 15624, 65 >>, -106 >>, << 1, << 18349, 3143, 7273, 194 >>, -52 >> >>,
       << << -1, << 11191, 22642, 10401, 83 >>, -105 >>, << 1, << 4845, 13961, 9062, 195 >>, -52 >> >>,
       << << 1, << 1861, 26459, 8538 >>, -97 >>, << 1, << 26265, 13076, 11039, 196 >>, -52 >> >>,
       << << 1, << 15021, 24824, 14127, 59 >>, -105 >>, << 1, << 8411, 1109, 13205, 197 >>, -52 >> >>,
       << << -1, << 26623, 14731, 22914, 173 >>, -109 >>, << 1, << 20771, 2906, 20274, 49 >>, -50 >> >>,
       << << 1, << 22481, 11513, 30339, 55 >>, -106 >>, << 1, << 15259, 6421, 25437, 99 >>, -51 >> >>,
       << << -1, << 15747, 20028, 9342, 152 >>, -106 >>, << 1, << 32739, 2961, 10422, 100 >>, -51 >> >>,
       << << -1, << 7721, 5848, 9954, 237 >>, -110 >>, << 1, << 17893, 24987, 23774, 201 >>, -52 >> >>,
       << << -1, << 14681, 31009, 4069, 225 >>, -109 >>, << 1, << 21007, 6032, 26899, 202 >>, -52 >> >>,
       << << -1, << 31957, 8948, 1670, 73 >>, -105 >>, << 1, << 25829, 21499, 24416, 12 >>, -48 >> >>,
       << << -1, << 3659, 11981, 10675, 174 >>, -107 >>, << 1, << 989, 28874, 16866, 102 >>, -51 >> >>,
       << << 1, << 20007, 22307, 16368, 141 >>, -108 >>, << 1, << 16137, 12372, 28964, 12 >>, -48 >> >>,
       << << 1, << 29627, 16916, 18647, 238 >>, -109 >>, << 1, << 8995, 13254, 8588, 207 >>, -52 >> >>,
       << << -1, << 8803, 17604, 5136, 190 >>, -107 >>, << 1, << 25957, 30395, 12697, 208 >>, -52 >> >>,
       << << 1, << 12757, 18372, 29211, 216 >>, -107 >>, << 1, << 11571, 22676, 17007, 209 >>, -52 >> >>,
       << << -1, << 15125, 10105, 28487, 141 >>, -106 >>, << 1, << 9565, 25724, 21518, 210 >>, -52 >> >>,
       << << 1, << 6377, 7406, 6243, 67 >>, -105 >>, << 1, << 5739, 1228, 15567, 26 >>, -49 >> >>,
       << << 1, << 23219, 23782, 9745, 163 >>, -107 >>, << 1, << 32191, 10995, 31149, 212 >>, -52 >> >>,
       << << -1, << 10093, 19399, 24525, 37 >>, -105 >>, << 1, << 31165, 16339, 1751, 107 >>, -51 >> >>,
       << << 1, << 13191, 9622, 27102, 224 >>, -107 >>, << 1, << 21421, 12981, 8830, 215 >>, -52 >> >>,
       << << -1, << 27901, 19153, 30494, 65 >>, -105 >>, << 1, << 23347, 10637, 7182, 108 >>, -51 >> >>,
       << << -1, << 22365, 22236, 1970, 87 >>, -109 >>, << 1, << 5627, 28830, 20106, 217 >>, -52 >> >>,
       << << -1, << 7129, 29165, 2624, 2 >>, -100 >>, << 1, << 11421, 3557, 13029, 109 >>, -51 >> >>,
       << << -1, << 25805, 7254, 22260, 49 >>, -107 >>, << 1, << 24135, 26102, 32219, 219 >>, -52 >> >>,
       << << -1, << 2613, 22193, 15241, 143 >>, -106 >>, << 1, << 805, 12449, 19296, 110 >>, -51 >> >>,
       << << 1, << 24013, 5311, 32604, 167 >>, -108 >>, << 1, << 24809, 4171, 6205, 111 >>, -51 >> >>,
       << << -1, << 9771, 32073, 15867, 35 >>, -104 >>, << 1, << 7689, 14254, 19209, 223 >>, -52 >> >>,
       << << 1, << 3251, 24926, 15032, 155 >>, -108 >>, << 1, << 21671, 28354, 6555, 56 >>, -50 >> >>,
       << << 1, << 32613, 11855, 25394, 61 >>, -105 >>, << 1, << 26685, 24575, 342, 113 >>, -51 >> >>,
       << << 1, << 22123, 26756, 24719, 41 >>, -105 >>, << 1, << 20811, 23727, 8132, 227 >>, -52 >> >>,
       << << 1, << 6759, 28828, 14012, 158 >>, -109 >>, << 1, << 26549, 10253, 15798, 228 >>, -52 >> >>,
       << << 1, << 17197, 6948, 13718, 23 >>, -106 >>, << 1, << 4201, 14815, 23683, 229 >>, -52 >> >>,
       << << -1, << 23273, 972, 5169, 66 >>, -106 >>, << 1, << 25085, 21853, 15894, 115 >>, -51 >> >>,
       << << -1, << 31343, 32767, 13684, 253 >>, -107 >>, << 1, << 25183, 9475, 1837, 58 >>, -50 >> >>,
       << << -1, << 10569, 28907, 14008, 128 >>, -106 >>, << 1, << 17657, 2061, 24334, 116 >>, -51 >> >>,
       << << 1, << 1959, 19578, 3606, 165 >>, -108 >>, << 1, << 9351, 14839, 24675, 234 >>, -52 >> >>,
       << << -1, << 8719, 16512, 18040, 148 >>, -107 >>, << 1, << 12403, 17842, 16497, 29 >>, -49 >> >>,
       << << 1, << 25771, 27360, 23120, 60 >>, -105 >>, << 1, << 12933, 1974, 10136, 237 >>, -52 >> >>,
       << << 1, << 27467, 22530, 26982, 161 >>, -107 >>, << 1, << 3491, 7984, 14948, 7 >>, -47 >> >>,
       << << -1, << 15903, 3944, 21636, 150 >>, -107 >>, << 1, << 7007, 26359, 29276, 239 >>, -52 >> >>,
       << << -1, << 3529, 30350, 10980, 201 >>, -107 >>, << 1, << 8489, 10731, 6424, 241 >>, -52 >> >>,
       << << 1, << 2259, 16501, 22545, 165 >>, -108 >>, << 1, << 8187, 26507, 8285, 121 >>, -51 >> >>,
       << << 1, << 29297, 9018, 6065, 158 >>, -107 >>, << 1, << 19587, 30606, 26951, 243 >>, -52 >> >>,
       << << -1, << 14623, 20986, 32196, 15 >>, -103 >>, << 1, << 18541, 8868, 18783, 122 >>, -51 >> >>,
       << << -1, << 29821, 17478, 14947, 237 >>, -107 >>, << 1, << 26609, 23324, 15648, 246 >>, -52 >> >>,
       << << 1, << 17409, 4202, 25054, 30 >>, -104 >>, << 1, << 23079, 23746, 26735, 247 >>, -52 >> >>,
       << << 1, << 30105, 17321, 22313, 80 >>, -106 >>, << 1, << 14999, 28375, 5292, 249 >>, -52 >> >>,
       << << 1, << 17143, 12753, 18770, 105 >>, -106 >>, << 1, << 14613, 13019, 29959, 3 >>, -46 >> >>,
       << << -1, << 25581, 18551, 24299, 241 >>, -107 >>, << 1, << 12165, 22222, 31741, 62 >>, -50 >> >>,
       << << 1, << 19869, 6947, 9453, 188 >>, -108 >>, << 1, << 21019, 24679, 21472, 31 >>, -49 >> >>,
       << << 1, << 19593, 705, 5893, 152 >>, -110 >>, << 1, << 29169, 22302, 20232, 254 >>, -52 >> >> >>

\* the f64 s * m * 2^e of an entry << s, m, e >> of a table, m odd or 0
F64Of(t) == IF t[2] = << >> THEN PosZero ELSE PackOdd(t[1], t[2], t[3])

Ln2hi == F64Of(PowLogData[1])
Ln2lo == F64Of(PowLogData[2])
\* A[i], i = 0 .. 6
PowLogA == [i \in 0..6 |-> F64Of(PowLogPoly[i + 1])]
\* T[i], i = 0 .. 127
PowLogT ==
    [i \in 0..127 |-> [invc |-> F64Of(PowLogTab[i + 1][1]),
                       logc |-> F64Of(PowLogTab[i + 1][2]),
                       logctail |-> F64Of(PowLogTab[i + 1][3])]]

InvLn2N == F64Of(ExpData[1])
Shift == F64Of(ExpData[2])
NegLn2hiN == F64Of(ExpData[3])
NegLn2loN == F64Of(ExpData[4])
\* C2 .. C5
ExpC == [i \in 2..5 |-> F64Of(ExpPoly[i - 1])]
\* the tail and the significand and exponent of the scale of 2^(j/128)
ExpT ==
    [j \in 0..127 |-> [tail |-> F64Of(ExpTab[j + 1][1]),
                       m |-> ExpTab[j + 1][2][2], e |-> ExpTab[j + 1][2][3]]]

\* the exponent of a finite value other than 0: 2^Exponent(v) <= |v| <
\* 2^(Exponent(v) + 1)
Exponent(v) == BitLen(Unpack(v).m) + Unpack(v).e - 1

\* the integer that the f64 v is, where it has 31 bits at most
IntOf(v) ==
    IF IsZero(v) THEN 0
    ELSE Unpack(v).s * BigToInt(ShiftLeft(Unpack(v).m, Unpack(v).e))

\* the first 21 bits of the significand m
Top21(m) ==
    BigToInt(IF BitLen(m) <= 21 THEN ShiftLeft(m, 21 - BitLen(m))
             ELSE ShiftRight(m, BitLen(m) - 21))

\* fma(a, b, c) for finite a, b and c: a * b + c rounded once
Fma(a, b, c) ==
    IF IsZero(a) \/ IsZero(b)
    THEN (IF IsZero(c) THEN Zero((SignBit(a) # SignBit(b)) /\ c = NegZero)
          ELSE c)
    ELSE AddUnpacked([s |-> Unpack(a).s * Unpack(b).s,
                      m |-> BigMul(Unpack(a).m, Unpack(b).m),
                      e |-> Unpack(a).e + Unpack(b).e],
                     IF IsZero(c)
                     THEN [s |-> 1, m |-> << >>,
                           e |-> Unpack(a).e + Unpack(b).e]
                     ELSE Unpack(c))

\* checkint: 0 if y is no integer, 1 if it is odd, 2 if it is even
CheckInt(y) == IF ~IsInteger(y) THEN 0 ELSE IF IsOddInteger(y) THEN 1 ELSE 2

\* log_inline: y = hi + lo and *tail = hi - y + lo
LogPair(hi, lo, y) == [hi |-> y, lo |-> AddF64(SubF64(hi, y), lo)]

LogResult(hi, lo) == LogPair(hi, lo, AddF64(hi, lo))

\* log_inline: p = ar3 * (A[1] + r * A[2] + ar2 * (A[3] + r * A[4] + ar2 *
\* (A[5] + r * A[6]))) without the factor ar3
LogPoly(r, ar2) ==
    Fma(ar2, Fma(Fma(r, PowLogA[6], PowLogA[5]), ar2,
                 Fma(r, PowLogA[4], PowLogA[3])),
        Fma(r, PowLogA[2], PowLogA[1]))

\* log_inline: lo4 = t2 - hi + ar2 and lo = lo1 + lo2 + lo3 + lo4 + p
LogLow(r, ar2, hi, t2, lo123, ar3) ==
    LogResult(hi, Fma(ar3, LogPoly(r, ar2),
                      AddF64(lo123, AddF64(SubF64(t2, hi), ar2))))

\* log_inline: hi = t2 + ar2, lo3 = fma(ar, r, -ar2) and ar3 = r * ar2
LogHigh(r, t2, lo12, ar, ar2) ==
    LogLow(r, ar2, AddF64(t2, ar2), t2,
           AddF64(lo12, Fma(ar, r, Neg(ar2))), MulF64(r, ar2))

\* log_inline: lo2 = t1 - t2 + r and ar2 = r * ar
LogSquares(r, t1, t2, lo1, ar) ==
    LogHigh(r, t2, AddF64(lo1, AddF64(SubF64(t1, t2), r)), ar, MulF64(r, ar))

\* log_inline: t2 = t1 + r and ar = A[0] * r
LogSums(r, t1, lo1) ==
    LogSquares(r, t1, AddF64(t1, r), lo1, MulF64(PowLogA[0], r))

\* log_inline: r = fma(z, invc, -1.0), t1 = kd * Ln2hi + logc and lo1 =
\* kd * Ln2lo + logctail, the two sums contracted to fma
LogTerms(z, kd, t) ==
    LogSums(Fma(z, t.invc, Neg(One)), Fma(kd, Ln2hi, t.logc),
            Fma(kd, Ln2lo, t.logctail))

\* log_inline: z = x / 2^k is in [OFF, 2 * OFF) and T[i] is for the
\* subinterval of z
LogFrom(x, k, i) == LogTerms(PackOdd(1, x.m, x.e - k), Rat(k, 1), PowLogT[i])

\* log_inline: tmp = ix - OFF, i = (tmp >> 45) % 128 and k = tmp >> 52, for
\* OFF = 0x3fe6955500000000; d is (tmp >> 32) % 2^20 where the first 20 bits
\* after the leading bit of x are those of OFF at least, that minus 2^20
\* otherwise, and ex is the exponent of x
LogAt(x, d, ex) ==
    IF d >= 0 THEN LogFrom(x, ex + 1, d \div 8192)
    ELSE LogFrom(x, ex, (d + 1048576) \div 8192)

\* log_inline for x > 0 in odd form; a subnormal x is taken as normal, as
\* pow makes it
LogInline(x) ==
    LogAt(x, Top21(x.m) - 1048576 - 431445, BitLen(x.m) + x.e - 1)

\* specialcase, k < 0 and |y| < 1.0: y is rounded as it will be below
\* 2^-1022
SpecialSmallWith(y, lo, hi, one) ==
    SubF64(AddF64(hi, AddF64(AddF64(SubF64(one, hi), y), lo)), one)

SpecialSmallFix(y, negative) == IF IsZero(y) THEN Zero(negative) ELSE y

SpecialSmall(scale, st, y, one) ==
    SpecialSmallFix(SpecialSmallWith(y, AddF64(SubF64(scale, y), st),
                                     AddF64(one, y), one),
                    SignBit(scale))

\* specialcase, k < 0: y = scale + scale * tmp
SpecialDown(scale, st, y) ==
    MulF64(PackOdd(1, << 1 >>, -1022),
           IF IsZero(y) \/ Exponent(y) < 0
           THEN SpecialSmall(scale, st, y,
                             IF IsNegative(y) THEN Neg(One) ELSE One)
           ELSE y)

SpecialDownFrom(scale, st) == SpecialDown(scale, st, AddF64(scale, st))

\* specialcase, k > 0
SpecialUp(scale, tmp) ==
    MulF64(PackOdd(1, << 1 >>, 1009), Fma(scale, tmp, scale))

SpecialDownWith(scale, tmp) == SpecialDownFrom(scale, MulF64(scale, tmp))

\* specialcase: the scale is 2^(j/128) * 2^q with the sign s, the exponent
\* less by 1009 or more by 1022
SpecialCase(tmp, t, q, s, n) ==
    IF n >= 0 THEN SpecialUp(PackOdd(s, t.m, t.e + q - 1009), tmp)
    ELSE SpecialDownWith(PackOdd(s, t.m, t.e + q + 1022), tmp)

\* exp_inline: scale + scale * tmp
ExpScaled(tmp, scale) == Fma(tmp, scale, scale)

ExpEnd(tmp, t, q, s, n, special) ==
    IF special THEN SpecialCase(tmp, t, q, s, n)
    ELSE ExpScaled(tmp, PackOdd(s, t.m, t.e + q))

\* exp_inline: tmp = tail + r + r2 * (C2 + r * C3) + r2 * r2 * (C4 + r * C5)
ExpSum(r, r2, t, q, s, n, special) ==
    ExpEnd(Fma(Fma(r, ExpC[5], ExpC[4]), MulF64(r2, r2),
               Fma(Fma(r, ExpC[3], ExpC[2]), r2, AddF64(r, t.tail))),
           t, q, s, n, special)

\* exp_inline: idx = 2 * (ki % N) and the exponent of the scale, for the
\* integer n that kd is
ExpTerms(r, n, s, special) ==
    ExpSum(r, MulF64(r, r), ExpT[n % 128], (n - (n % 128)) \div 128, s, n,
           special)

\* exp_inline: r = x + kd * NegLn2hiN + kd * NegLn2loN + xtail
ExpRest(x, xtail, kd, s, special) ==
    ExpTerms(AddF64(Fma(kd, NegLn2loN, Fma(kd, NegLn2hiN, x)), xtail),
             IntOf(kd), s, special)

\* exp_inline for x + xtail, the result having the sign s: kd = z + Shift -
\* Shift for z = InvLn2N * x, the first sum contracted to fma
ExpInline(x, xtail, s) ==
    IF IsZero(x) \/ Exponent(x) < -54
    THEN (IF s < 0 THEN Neg(AddF64(One, x)) ELSE AddF64(One, x))
    ELSE IF Exponent(x) >= 10
    THEN (IF SignBit(x) THEN Zero(s < 0) ELSE Inf(s < 0))
    ELSE ExpRest(x, xtail, SubF64(Fma(x, InvLn2N, Shift), Shift), s,
                 Exponent(x) >= 9)

\* pow: ehi = y * hi and elo = y * lo + fma(y, hi, -ehi)
PowScaled(y, log, ehi, s) ==
    ExpInline(ehi, Fma(y, log.lo, Fma(log.hi, y, Neg(ehi))), s)

PowExp(y, log, s) == PowScaled(y, log, MulF64(y, log.hi), s)

\* |l| compared with 1 for an l that is not NaN: -1, 0 or 1
AbsAgainstOne(l) ==
    IF IsInf(l) THEN 1
    ELSE IF IsZero(l) THEN -1
    ELSE IF IsBig(l) THEN (IF BitLen(l[3]) + l[4] <= 0 THEN -1 ELSE 1)
    ELSE IF Abs(l[1]) = l[2] THEN 0
    ELSE IF Abs(l[1]) < l[2] THEN -1 ELSE 1

\* pow for finite x and y other than 0, the power having the sign s: the
\* power is 1 + y or 1 - y if |y| < 2^-65, out of range if |y| >= 2^63
FinitePower(x, y, s) ==
    IF Exponent(y) < -65 \/ Exponent(y) >= 63
    THEN IF AbsAgainstOne(x) = 0 THEN One
         ELSE IF Exponent(y) < -65
         THEN (IF AbsAgainstOne(x) > 0 THEN AddF64(One, y) ELSE SubF64(One, y))
         ELSE IF (AbsAgainstOne(x) > 0) = ~SignBit(y) THEN PosInf
         ELSE PosZero
    ELSE PowExp(y, LogInline(OddForm(Unpack(x))), s)

\* f64::powf
Powf(l, r) ==
    IF IsZero(r) THEN One
    ELSE IF IsOne(l) THEN One
    ELSE IF IsNaN(l) \/ IsNaN(r) THEN NaN
    ELSE IF IsInf(r)
    THEN IF AbsAgainstOne(l) = 0 THEN One
         ELSE IF (AbsAgainstOne(l) > 0) = (r = PosInf) THEN PosInf
         ELSE PosZero
    ELSE IF IsInf(l)
    THEN IF SignBit(r) THEN Zero(l = NegInf /\ CheckInt(r) = 1)
         ELSE Inf(l = NegInf /\ CheckInt(r) = 1)
    ELSE IF IsZero(l)
    THEN IF SignBit(r) THEN Inf(l = NegZero /\ CheckInt(r) = 1)
         ELSE Zero(l = NegZero /\ CheckInt(r) = 1)
    ELSE IF SignBit(l) /\ CheckInt(r) = 0 THEN NaN
    ELSE FinitePower(l, r, IF SignBit(l) /\ CheckInt(r) = 1 THEN -1 ELSE 1)

\* (x + a / x) / 2 in integers
SqrtNext(a, x) == ShiftRight(BigAdd(x, BigDivMod(a, x).q), 1)

RECURSIVE IntSqrtFrom(_, _)
\* Newton's iteration from x, which is not below the square root of a, has
\* given y
IntSqrtStep(a, x, y) == IF BigCmp(y, x) >= 0 THEN x ELSE IntSqrtFrom(a, y)

IntSqrtFrom(a, x) == IntSqrtStep(a, x, SqrtNext(a, x))

\* the integer part of the square root of a # 0
IntSqrt(a) == IntSqrtFrom(a, ShiftLeft(<< 1 >>, (BitLen(a) + 1) \div 2))

\* the f64 nearest to 2^e times the square root of a, r being IntSqrt(a)
RoundRoot(r, a, e) == RoundPack(1, r, e, BigCmp(BigMul(r, r), a) # 0)

\* the square root of m * 2^(2 * e)
SqrtOf(m, e) == RoundRoot(IntSqrt(m), m, e)

\* the square root of m * 2^e: m is shifted by k bits, so that e - k is
\* even and the root has 55 bits at least
SqrtShifted(m, e, k) ==
    SqrtOf(ShiftLeft(m, k + ((e - k) % 2)), (e - k - ((e - k) % 2)) \div 2)

\* f64::sqrt
SqrtF64(v) ==
    IF IsNaN(v) \/ IsZero(v) \/ v = PosInf THEN v
    ELSE IF SignBit(v) THEN NaN
    ELSE SqrtShifted(Unpack(v).m, Unpack(v).e,
                     Max(0, 2 * MantissaBits + 4 - BitLen(Unpack(v).m)))

\* the profiles of a build: dev (opt-level 0, what cargo build and cargo run
\* take) and release (opt-level 3)
Builds == { "dev", "release" }

\* val.powf(0.5), the exponent being a constant of the program: the dev
\* build calls pow; the release build (every opt-level but 0) has the call
\* replaced by val == -inf ? +inf : fabs(sqrt(val)). The two differ in the
\* last bit for some val, 2921.0 for one.
PowfHalf(val) ==
    IF build = "dev" THEN Powf(val, Rat(1, 2))
    ELSE IF val = NegInf THEN PosInf
    ELSE IF val = NegZero THEN PosZero
    ELSE SqrtF64(val)

-----------------------------------------------------------------------------
(* Parsing a literal (<f64 as FromStr>::from_str) and printing a value      *)
(* (<f64 as Display>::fmt).                                                 *)

RECURSIVE DigitsValue(_, _)
\* the value of the digits of s ('.' skipped), after the digits worth acc
DigitsValue(s, acc) ==
    IF s = << >> THEN acc
    ELSE IF Head(s) = "." THEN DigitsValue(Tail(s), acc)
    ELSE DigitsValue(Tail(s), 10 * acc + DigitValue(Head(s)))

RECURSIVE BigDigits(_, _)
\* DigitsValue for a literal of any length
BigDigits(s, acc) ==
    IF s = << >> THEN acc
    ELSE IF Head(s) = "." THEN BigDigits(Tail(s), acc)
    ELSE BigDigits(Tail(s),
                   BigAdd(BigMulSmall(acc, 10), BigOf(DigitValue(Head(s)))))

RECURSIVE TimesPow10(_, _)
\* a * 10^k
TimesPow10(a, k) ==
    IF k = 0 \/ a = << >> THEN a
    ELSE IF k >= 4 THEN TimesPow10(BigMulSmall(a, 10000), k - 4)
    ELSE TimesPow10(BigMulSmall(a, 10), k - 1)

BigPow10(k) == TimesPow10(<< 1 >>, k)

CountOf(s, ch) == Cardinality({i \in 1..Len(s) : s[i] = ch})

\* the digits after the '.' of s, if any
FractionLen(s) ==
    IF CountOf(s, ".") = 0 THEN 0
    ELSE Len(s) - (CHOOSE i \in 1..Len(s) : s[i] = ".")

\* the f64 nearest to n / d, n and d > 0 of any length
NearestF64(n, d) == IF n = << >> THEN PosZero ELSE QuotientF64(1, n, d, 0)

\* the f64 nearest to the decimal number s
DecimalF64(s) ==
    IF Len(s) <= 9 THEN Rat(DigitsValue(s, 0), Pow10(FractionLen(s)))
    ELSE NearestF64(BigDigits(s, << >>), BigPow10(FractionLen(s)))

\* <f64 as FromStr>::from_str on a string of digits and '.': a literal has at
\* least one digit and at most one decimal point
ParseF64(s) ==
    IF CountOf(s, ".") <= 1 /\ Len(s) - CountOf(s, ".") >= 1
    THEN [ok |-> TRUE, value |-> DecimalF64(s)]
    ELSE [ok |-> FALSE, value |-> PosZero]

RECURSIVE FractionDigits(_, _)
\* the decimal digits of r/d (0 <= r < d), d dividing a power of ten
FractionDigits(r, d) ==
    IF r = 0 THEN ""
    ELSE ToString((10 * r) \div d) \o FractionDigits((10 * r) % d, d)

\* The shortest decimal number that parses to s * m * 2^e, the nearest to
\* it of those: the digits d1 d2 .. dn and the k of 0.d1d2..dn * 10^k.
\* r / s is the value, mp / s and mm / s are half the distances to the f64
\* values after and before it, the ends of the interval of the decimal
\* numbers that parse to it; the ends belong to it if the significand is
\* even.

\* the value has the exponent 2^(e - shift) in its 53 bits (fewer below
\* 2^-1022)
ShiftOf(m, e) == Min(MantissaBits - BitLen(m), e + MinExponent)

\* the f64 before the value is nearer than the one after it
IsNarrow(m, e) == m = << 1 >> /\ e + MinExponent > MantissaBits - 1

Scaled(r, s, mp, mm, k) == [r |-> r, s |-> s, mp |-> mp, mm |-> mm, k |-> k]

\* r, s, mp and mm of m * 2^e, ulp being the exponent e - shift
Boundaries(m, e, ulp, narrow) ==
    IF ulp >= 0
    THEN IF narrow
         THEN Scaled(ShiftLeft(m, e + 2), << 4 >>,
                     ShiftLeft(<< 1 >>, ulp + 1), ShiftLeft(<< 1 >>, ulp), 0)
         ELSE Scaled(ShiftLeft(m, e + 1), << 2 >>,
                     ShiftLeft(<< 1 >>, ulp), ShiftLeft(<< 1 >>, ulp), 0)
    ELSE IF narrow
         THEN Scaled(ShiftLeft(m, e - ulp + 2), ShiftLeft(<< 1 >>, 2 - ulp),
                     << 2 >>, << 1 >>, 0)
         ELSE Scaled(ShiftLeft(m, e - ulp + 1), ShiftLeft(<< 1 >>, 1 - ulp),
                     << 1 >>, << 1 >>, 0)

\* a k near that of m * 2^e and not above it: 30103 / 100000 is less than
\* the logarithm of 2 to the base 10
DecimalExponent(m, e) == ((BitLen(m) + e - 1) * 30103) \div 100000

\* b / 10^k for k >= 0, b * 10^-k for k < 0
ScaledTo(b, k) ==
    IF k >= 0 THEN Scaled(b.r, TimesPow10(b.s, k), b.mp, b.mm, k)
    ELSE Scaled(TimesPow10(b.r, -k), b.s, TimesPow10(b.mp, -k),
                TimesPow10(b.mm, -k), k)

RECURSIVE ScaleDown(_, _)
\* k made smaller until the first digit is not 0
ScaleDown(b, even) ==
    IF BigCmp(BigMulSmall(BigAdd(b.r, b.mp), 10), b.s) < (IF even THEN 0 ELSE 1)
    THEN ScaleDown(Scaled(BigMulSmall(b.r, 10), b.s, BigMulSmall(b.mp, 10),
                          BigMulSmall(b.mm, 10), b.k - 1), even)
    ELSE b

RECURSIVE ScaleUp(_, _)
\* k made larger until the interval is below 10^k
ScaleUp(b, even) ==
    IF BigCmp(BigAdd(b.r, b.mp), b.s) >= (IF even THEN 0 ELSE 1)
    THEN ScaleUp(Scaled(b.r, BigMulSmall(b.s, 10), b.mp, b.mm, b.k + 1), even)
    ELSE ScaleDown(b, even)

RECURSIVE Generate(_, _, _, _, _)

\* the digit d is followed by the rest r / s: the digits end where a
\* number of the interval is reached
Emit(r, s, mp, mm, even, d, low, high) ==
    IF ~low /\ ~high THEN << d >> \o Generate(r, s, mp, mm, even)
    ELSE IF low /\ ~high THEN << d >>
    ELSE IF high /\ ~low THEN << d + 1 >>
    ELSE IF BigCmp(BigMulSmall(r, 2), s) < 0 THEN << d >>
    ELSE << d + 1 >>

\* the next digit is d, the rest r / s
EmitRest(r, s, mp, mm, even, d) ==
    Emit(r, s, mp, mm, even, d,
         BigCmp(r, mm) < (IF even THEN 1 ELSE 0),
         BigCmp(BigAdd(r, mp), s) > (IF even THEN -1 ELSE 0))

\* the next digit is d = r \div s
DigitStep(r, s, mp, mm, even, d) ==
    EmitRest(BigSub(r, BigMulSmall(s, d)), s, mp, mm, even, d)

\* the digits of r / s
Generate(r, s, mp, mm, even) ==
    DigitStep(BigMulSmall(r, 10), s, BigMulSmall(mp, 10), BigMulSmall(mm, 10),
              even, DigitOf(BigMulSmall(r, 10), s, 0, 3))

RECURSIVE DigitString(_)
DigitString(ds) ==
    IF ds = << >> THEN "" ELSE ToString(Head(ds)) \o DigitString(Tail(ds))

Twice(z, odd) == IF odd THEN z \o z \o "0" ELSE z \o z

RECURSIVE Zeros(_)
\* n times "0"
Zeros(n) == IF n <= 0 THEN "" ELSE Twice(Zeros(n \div 2), n % 2 = 1)

\* 0.d1d2..dn * 10^k written without an exponent
Layout(ds, k) ==
    IF k <= 0 THEN "0." \o Zeros(-k) \o DigitString(ds)
    ELSE IF k >= Len(ds) THEN DigitString(ds) \o Zeros(k - Len(ds))
    ELSE DigitString(SubSeq(ds, 1, k)) \o "."
         \o DigitString(SubSeq(ds, k + 1, Len(ds)))

ShortestFrom(b, even) == Layout(Generate(b.r, b.s, b.mp, b.mm, even), b.k)

\* m * 2^e for an odd m
Shortest(m, e) ==
    ShortestFrom(ScaleUp(ScaledTo(Boundaries(m, e, e - ShiftOf(m, e),
                                             IsNarrow(m, e)),
                                  DecimalExponent(m, e)),
                         ShiftOf(m, e) > 0),
                 ShiftOf(m, e) > 0)

RECURSIVE FormatF64(_)
\* <f64 as Display>::fmt
FormatF64(v) ==
    IF IsBig(v) THEN (IF v[2] < 0 THEN "-" ELSE "") \o Shortest(v[3], v[4])
    ELSE IF v = NaN THEN "NaN"
    ELSE IF v = PosInf THEN "inf"
    ELSE IF v = NegInf THEN "-inf"
    ELSE IF v = NegZero THEN "-0"
    ELSE IF v[2] = 1 THEN (IF v[1] < 0 THEN "-" ELSE "") \o ToString(Abs(v[1]))
    ELSE (IF v[1] < 0 THEN "-" ELSE "") \o ToString(Abs(v[1]) \div v[2])
         \o "." \o FractionDigits(Abs(v[1]) % v[2], v[2])

-----------------------------------------------------------------------------
(* Token (src/src/token.rs) and ParseError (src/src/error.rs).             *)

TokNumber(v) == [type |-> "Number", value |-> v]
TokIdentifier(name, idx) == [type |-> "Identifier", name |-> name, idx |-> idx]
TokSimple(t) == [type |-> t]

\* a Display that writes every token as NUMBER(..) or id.., or without text
TokenDisplayWithoutNames(t) ==
    CASE t.type = "Number" -> "NUMBER(" \o FormatF64(t.value) \o ")"
      [] t.type = "Identifier" -> "id" \o ToString(t.idx)
      [] OTHER -> ""

\* impl Display for Token
TokenDisplay(t) ==
    CASE t.type = "Number" -> "NUMBER(" \o FormatF64(t.value) \o ")"
      [] t.type = "Identifier" -> "id" \o ToString(t.idx)
      [] t.type = "Plus" -> "PLUS"
      [] t.type = "Minus" -> "MINUS"
      [] t.type = "Multiply" -> "MUL"
      [] t.type = "Divide" -> "DIV"
      [] t.type = "Power" -> "POW"
      [] t.type = "LParen" -> "LPAREN"
      [] t.type = "RParen" -> "RPAREN"
      [] t.type = "Sqrt" -> "SQRT"
      [] t.type = "Assign" -> "ASSIGN"

InvalidToken(msg) == [kind |-> "InvalidToken", msg |-> msg]
UnexpectedToken(msg) == [kind |-> "UnexpectedToken", msg |-> msg]
UnexpectedEndOfInput == [kind |-> "UnexpectedEndOfInput", msg |-> ""]
InvalidNumber(msg) == [kind |-> "InvalidNumber", msg |-> msg]

\* impl Display for ParseError
ErrorDisplay(e) ==
    CASE e.kind = "InvalidToken" -> "Invalid token: " \o e.msg
      [] e.kind = "UnexpectedToken" -> "Unexpected token: " \o e.msg
      [] e.kind = "UnexpectedEndOfInput" -> "Unexpected end of input"
      [] e.kind = "InvalidNumber" -> "Invalid number: " \o e.msg

\* Option and Result values
None == [tag |-> "None"]
Some(v) == [tag |-> "Some", value |-> v]
Ok(v) == [tag |-> "Ok", value |-> v]
Err(e) == [tag |-> "Err", error |-> e]
Running == [tag |-> "Running"]

-----------------------------------------------------------------------------
(* Lexer (src/src/lexer.rs).  identifier_map is the set of the HashMap's   *)
(* (name, index) entries; pos counts the characters consumed.              *)

Lexer_new(in) == [input |-> in, pos |-> 0, identifier_map |-> {}, next_id |-> 1]

\* Lexer::peek
LexPeek(lx) == IF lx.pos < Len(lx.input) THEN Some(lx.input[lx.pos + 1]) ELSE None

\* Lexer::advance
LexAdvance(lx) == IF LexPeek(lx) = None THEN lx ELSE [lx EXCEPT !.pos = @ + 1]

\* get_identifier_index without the lookup: every occurrence is given next_id
GetIdentifierIndexAlwaysInserts(lx, name) ==
    [lexer |-> [lx EXCEPT !.identifier_map = @ \cup {<<name, lx.next_id>>},
                          !.next_id = @ + 1],
     idx |-> lx.next_id]

\* Lexer::get_identifier_index: the entry of name, inserted with next_id if vacant
GetIdentifierIndex(lx, name) ==
    IF \E e \in lx.identifier_map : e[1] = name
    THEN [lexer |-> lx,
          idx |-> (CHOOSE e \in lx.identifier_map : e[1] = name)[2]]
    ELSE [lexer |-> [lx EXCEPT !.identifier_map = @ \cup {<<name, lx.next_id>>},
                               !.next_id = @ + 1],
          idx |-> lx.next_id]

\* skip_whitespace that skips nothing
SkipWhitespaceSkipsNothing(lx) == lx

RECURSIVE SkipWhitespace(_)
\* Lexer::skip_whitespace
SkipWhitespace(lx) ==
    IF LexPeek(lx) # None /\ IsWhitespace(LexPeek(lx).value)
    THEN SkipWhitespace(LexAdvance(lx))
    ELSE lx

RECURSIVE ReadWhile(_, _, _)
\* the loop of read_number and read_identifier: take characters while Keep(ch)
ReadWhile(lx, Keep(_), acc) ==
    IF LexPeek(lx) # None /\ Keep(LexPeek(lx).value)
    THEN ReadWhile(LexAdvance(lx), Keep, Append(acc, LexPeek(lx).value))
    ELSE [lexer |-> lx, text |-> acc]

\* read_number that stops at a '.'
NumberCharDigitsOnly(ch) == IsNumeric(ch)

\* the characters read_number takes
NumberChar(ch) == IsNumeric(ch) \/ ch = "."

\* the characters read_identifier takes
IdentifierChar(ch) == IsAlphanumeric(ch) \/ ch = "_"

\* Lexer::read_number
ReadNumber(lx) ==
    LET r == ReadWhile(lx, NumberChar, << >>)
        p == ParseF64(r.text)
    IN  [lexer |-> r.lexer,
         res |-> IF p.ok THEN Ok(p.value) ELSE Err(InvalidNumber(Str(r.text)))]

\* Lexer::read_identifier
ReadIdentifier(lx) == ReadWhile(lx, IdentifierChar, << >>)

OperatorToken(ch) ==
    CASE ch = "+" -> TokSimple("Plus")
      [] ch = "-" -> TokSimple("Minus")
      [] ch = "*" -> TokSimple("Multiply")
      [] ch = "/" -> TokSimple("Divide")
      [] ch = "^" -> TokSimple("Power")
      [] ch = "(" -> TokSimple("LParen")
      [] ch = ")" -> TokSimple("RParen")
      [] ch = "=" -> TokSimple("Assign")

OperatorChars == {"+", "-", "*", "/", "^", "(", ")", "="}

SqrtKeyword == <<"s", "q", "r", "t">>

\* Lexer::next_token: Ok(Some(token)), Ok(None) at the end of the input, or Err
NextToken(lx0) ==
    LET lx == SkipWhitespace(lx0)
        pk == LexPeek(lx)
    IN  IF pk = None THEN [lexer |-> lx, res |-> Ok(None)]
        ELSE LET ch == pk.value IN
          IF ch \in OperatorChars
          THEN [lexer |-> LexAdvance(lx), res |-> Ok(Some(OperatorToken(ch)))]
          ELSE IF IsNumeric(ch)
          THEN LET r == ReadNumber(lx) IN
               [lexer |-> r.lexer,
                res |-> IF r.res.tag = "Ok"
                        THEN Ok(Some(TokNumber(r.res.value)))
                        ELSE r.res]
          ELSE IF IsAlphabetic(ch) \/ ch = "_"
          THEN LET r == ReadIdentifier(lx) IN
               IF ToLowercase(r.text) = SqrtKeyword
               THEN [lexer |-> r.lexer, res |-> Ok(Some(TokSimple("Sqrt")))]
               ELSE LET g == GetIdentifierIndex(r.lexer, Str(r.text)) IN
                    [lexer |-> g.lexer,
                     res |-> Ok(Some(TokIdentifier(Str(r.text), g.idx)))]
          ELSE [lexer |-> lx, res |-> Err(InvalidToken(ch))]

RECURSIVE TokenizeFrom(_, _)
\* the loop of Lexer::tokenize, with the tokens pushed so far
TokenizeFrom(lx, toks) ==
    LET r == NextToken(lx) IN
    IF r.res.tag = "Err" THEN [lexer |-> r.lexer, res |-> r.res]
    ELSE IF r.res.value = None THEN [lexer |-> r.lexer, res |-> Ok(toks)]
    ELSE TokenizeFrom(r.lexer, Append(toks, r.res.value.value))

\* Lexer::tokenize
Tokenize(lx) == TokenizeFrom(lx, << >>)

RECURSIVE SortByIdx(_)
\* sort_by_key(|(_, idx)| *idx) of the entries in the set m
SortByIdx(m) ==
    IF m = {} THEN << >>
    ELSE LET lo == CHOOSE e \in m : \A f \in m : e[2] <= f[2]
         IN  << lo >> \o SortByIdx(m \ {lo})

\* Lexer::into_identifier_table
IntoIdentifierTable(lx) == SortByIdx(lx.identifier_map)

-----------------------------------------------------------------------------
(* ASTNode (src/src/ast.rs).                                               *)

Number(v) == [node |-> "Number", value |-> v]
Identifier(name, idx) == [node |-> "Identifier", name |-> name, idx |-> idx]
BinaryOp(op, left, right) ==
    [node |-> "BinaryOp", op |-> op, left |-> left, right |-> right]
UnaryOp(op, operand) == [node |-> "UnaryOp", op |-> op, operand |-> operand]

-----------------------------------------------------------------------------
(* Parser (src/src/parser.rs).  A parse function takes the Parser object   *)
(* and returns it as the call leaves it, with the Result of the call.      *)

Parser_new(toks) == [tokens |-> toks, pos |-> 0]

\* Parser::peek
Peek(p) == IF p.pos < Len(p.tokens) THEN Some(p.tokens[p.pos + 1]) ELSE None

PeekIs(p, type) == Peek(p) # None /\ Peek(p).value.type = type

\* Parser::advance
Advance(p) ==
    IF p.pos < Len(p.tokens)
    THEN [parser |-> [p EXCEPT !.pos = @ + 1], res |-> Ok(p.tokens[p.pos + 1])]
    ELSE [parser |-> p, res |-> Err(UnexpectedEndOfInput)]

\* a call that returned Err: the `?` of the caller returns it at once
Failed(r) == r.res.tag = "Err"

\* the BinaryOp a parse function returns once its right operand r is parsed
BinaryFrom(op, left, r) ==
    IF Failed(r) THEN r
    ELSE [parser |-> r.parser, res |-> Ok(BinaryOp(op, left, r.res.value))]

RECURSIVE ParseAssignment(_), AssignmentTail(_), AssignmentRight(_, _),
          ParseExpr(_), ParseAddSub(_), AddSubFirst(_), AddSubLoop(_, _),
          AddSubRight(_, _, _), AddSubNext(_, _, _),
          ParseMulDiv(_), MulDivFirst(_), MulDivLoop(_, _),
          MulDivRight(_, _, _), MulDivNext(_, _, _),
          ParsePower(_), PowerTail(_), PowerRight(_, _),
          ParseUnary(_), UnaryOperand(_), UnaryFrom(_),
          ParsePrimary(_), PrimaryOf(_), PrimaryClose(_)

\* Parser::parse_assignment
ParseAssignment(p) == AssignmentTail(ParseExpr(p))

\* parse_assignment after `let left = self.parse_expr()?`
AssignmentTail(l) ==
    IF Failed(l) THEN l
    ELSE IF PeekIs(l.parser, "Assign")
    THEN AssignmentRight(l.res.value, Advance(l.parser))
    ELSE l

\* a parse_assignment that groups '=' to the left
AssignmentRightTakesExpr(left, a) ==
    IF Failed(a) THEN a
    ELSE AssignmentTail(BinaryFrom("=", left, ParseExpr(a.parser)))

\* parse_assignment after `self.advance()?`
AssignmentRight(left, a) ==
    IF Failed(a) THEN a ELSE BinaryFrom("=", left, ParseAssignment(a.parser))

\* Parser::parse_expr
ParseExpr(p) == ParseAddSub(p)

\* Parser::parse_add_sub
ParseAddSub(p) == AddSubFirst(ParseMulDiv(p))

\* parse_add_sub after `let mut left = self.parse_mul_div()?`
AddSubFirst(l) == IF Failed(l) THEN l ELSE AddSubLoop(l.parser, l.res.value)

\* the while loop of parse_add_sub, with the tree built so far
AddSubLoop(p, left) ==
    IF PeekIs(p, "Plus") THEN AddSubRight("+", left, Advance(p))
    ELSE IF PeekIs(p, "Minus") THEN AddSubRight("-", left, Advance(p))
    ELSE [parser |-> p, res |-> Ok(left)]

\* the loop body after `self.advance()?`
AddSubRight(op, left, a) ==
    IF Failed(a) THEN a ELSE AddSubNext(op, left, ParseMulDiv(a.parser))

\* the loop body after `let right = self.parse_mul_div()?`
AddSubNext(op, left, r) ==
    IF Failed(r) THEN r ELSE AddSubLoop(r.parser, BinaryOp(op, left, r.res.value))

\* Parser::parse_mul_div
ParseMulDiv(p) == MulDivFirst(ParsePower(p))

\* parse_mul_div after `let mut left = self.parse_power()?`
MulDivFirst(l) == IF Failed(l) THEN l ELSE MulDivLoop(l.parser, l.res.value)

\* the while loop of parse_mul_div, with the tree built so far
MulDivLoop(p, left) ==
    IF PeekIs(p, "Multiply") THEN MulDivRight("*", left, Advance(p))
    ELSE IF PeekIs(p, "Divide") THEN MulDivRight("/", left, Advance(p))
    ELSE [parser |-> p, res |-> Ok(left)]

\* the loop body after `self.advance()?`
MulDivRight(op, left, a) ==
    IF Failed(a) THEN a ELSE MulDivNext(op, left, ParsePower(a.parser))

\* the loop body after `let right = self.parse_power()?`
MulDivNext(op, left, r) ==
    IF Failed(r) THEN r ELSE MulDivLoop(r.parser, BinaryOp(op, left, r.res.value))

\* Parser::parse_power
ParsePower(p) == PowerTail(ParseUnary(p))

\* parse_power after `let mut left = self.parse_unary()?`
PowerTail(l) ==
    IF Failed(l) THEN l
    ELSE IF PeekIs(l.parser, "Power")
    THEN PowerRight(l.res.value, Advance(l.parser))
    ELSE l

\* parse_power taking one parse_unary as the right operand of '^'
PowerRightTakesUnary(left, a) ==
    IF Failed(a) THEN a ELSE BinaryFrom("^", left, ParseUnary(a.parser))

\* parse_power after `self.advance()?`
PowerRight(left, a) ==
    IF Failed(a) THEN a ELSE BinaryFrom("^", left, ParsePower(a.parser))

\* parse_unary with a unary minus: a '-' before a number negates the number
ParseUnaryWithMinus(p) ==
    IF PeekIs(p, "Sqrt") THEN UnaryOperand(Advance(p))
    ELSE IF PeekIs(p, "Minus")
    THEN LET o == ParsePrimary(Advance(p).parser)
         IN  IF Failed(o) \/ o.res.value.node # "Number" THEN o
             ELSE [parser |-> o.parser, res |-> Ok(Number(Neg(o.res.value.value)))]
    ELSE ParsePrimary(p)

\* Parser::parse_unary
ParseUnary(p) ==
    IF PeekIs(p, "Sqrt") THEN UnaryOperand(Advance(p)) ELSE ParsePrimary(p)

\* parse_unary taking a whole parse_power as the operand of sqrt
UnaryOperandTakesPower(a) ==
    IF Failed(a) THEN a ELSE UnaryFrom(ParsePower(a.parser))

\* parse_unary after `self.advance()?`
UnaryOperand(a) == IF Failed(a) THEN a ELSE UnaryFrom(ParsePrimary(a.parser))

\* parse_unary after `let operand = self.parse_primary()?`: sqrt(x) is
\* transformed into x ^ 0.5
UnaryFrom(o) ==
    IF Failed(o) THEN o
    ELSE [parser |-> o.parser,
          res |-> Ok(BinaryOp("^", o.res.value, Number(Rat(1, 2))))]

\* Parser::parse_primary
ParsePrimary(p) == PrimaryOf(Advance(p))

\* parse_primary's match on the token `self.advance()?` returned
PrimaryOf(a) ==
    IF Failed(a) THEN a
    ELSE CASE a.res.value.type = "Number" ->
                [parser |-> a.parser, res |-> Ok(Number(a.res.value.value))]
           [] a.res.value.type = "Identifier" ->
                [parser |-> a.parser,
                 res |-> Ok(Identifier(a.res.value.name, a.res.value.idx))]
           [] a.res.value.type = "LParen" -> PrimaryClose(ParseExpr(a.parser))
           [] OTHER ->
                [parser |-> a.parser,
                 res |-> Err(UnexpectedToken(TokenDisplay(a.res.value)))]

\* an LParen arm that fails where no ')' follows the expression
PrimaryCloseExpectsParen(e) ==
    IF Failed(e) THEN e
    ELSE IF PeekIs(e.parser, "RParen")
    THEN [parser |-> Advance(e.parser).parser, res |-> e.res]
    ELSE [parser |-> e.parser, res |-> Err(UnexpectedEndOfInput)]

\* the LParen arm after `let expr = self.parse_expr()?`: a ')' is consumed
\* when it is the next token
PrimaryClose(e) ==
    IF Failed(e) THEN e
    ELSE IF PeekIs(e.parser, "RParen")
    THEN [parser |-> Advance(e.parser).parser, res |-> e.res]
    ELSE e

\* Parser::parse
Parse(p) == ParseAssignment(p)

-----------------------------------------------------------------------------
(* ASTNode::to_three_address_code and ASTNode::semantic_check              *)
(* (src/src/ast.rs).  A line of three-address code is the sequence of its  *)
(* whitespace-separated parts: "t1 = id1 + 2" is <<"t1","=","id1","+","2">>.*)

OpStr(op) == IF op \in {"=", "+", "-", "*", "/", "^"} THEN op ELSE "?"

TempName(n) == "t" \o ToString(n)

RECURSIVE ToThreeAddressCode(_, _)
\* to_three_address_code appending the code of the left child after that of
\* the right child
ToThreeAddressCodeRightCodeFirst(n, temp_counter) ==
    CASE n.node = "Number" ->
           [code |-> << >>, result |-> FormatF64(n.value), counter |-> temp_counter]
      [] n.node = "Identifier" ->
           [code |-> << >>, result |-> "id" \o ToString(n.idx), counter |-> temp_counter]
      [] n.node = "BinaryOp" ->
           LET l == ToThreeAddressCode(n.left, temp_counter)
               r == ToThreeAddressCode(n.right, l.counter)
               temp == TempName(r.counter)
           IN  IF n.op = "="
               THEN [code |-> r.code \o l.code \o << <<l.result, "=", r.result>> >>,
                     result |-> l.result,
                     counter |-> r.counter + 1]
               ELSE [code |-> r.code \o l.code
                               \o << <<temp, "=", l.result, OpStr(n.op), r.result>> >>,
                     result |-> temp,
                     counter |-> r.counter + 1]
      [] n.node = "UnaryOp" ->
           LET o == ToThreeAddressCode(n.operand, temp_counter)
               temp == TempName(o.counter)
           IN  [code |-> Append(o.code, <<temp, "=", n.op \o "(" \o o.result \o ")">>),
                result |-> temp,
                counter |-> o.counter + 1]

\* ASTNode::to_three_address_code: the lines, the result operand and the
\* temp_counter as the call leaves it
ToThreeAddressCode(n, temp_counter) ==
    CASE n.node = "Number" ->
           [code |-> << >>, result |-> FormatF64(n.value), counter |-> temp_counter]
      [] n.node = "Identifier" ->
           [code |-> << >>, result |-> "id" \o ToString(n.idx), counter |-> temp_counter]
      [] n.node = "BinaryOp" ->
           LET l == ToThreeAddressCode(n.left, temp_counter)
               r == ToThreeAddressCode(n.right, l.counter)
               temp == TempName(r.counter)
           IN  IF n.op = "="
               THEN [code |-> l.code \o r.code \o << <<l.result, "=", r.result>> >>,
                     result |-> l.result,
                     counter |-> r.counter + 1]
               ELSE [code |-> l.code \o r.code
                               \o << <<temp, "=", l.result, OpStr(n.op), r.result>> >>,
                     result |-> temp,
                     counter |-> r.counter + 1]
      [] n.node = "UnaryOp" ->
           LET o == ToThreeAddressCode(n.operand, temp_counter)
               temp == TempName(o.counter)
           IN  [code |-> Append(o.code, <<temp, "=", n.op \o "(" \o o.result \o ")">>),
                result |-> temp,
                counter |-> o.counter + 1]

DivisionByZeroWarning == "Warning: Division by zero detected"

ComplexWarning ==
    "Warning: Negative base with fractional exponent may produce complex numbers"

\* the warnings a BinaryOp node pushes for itself, before it recurses
OwnWarnings(n) ==
    (IF n.op = "/" /\ n.right.node = "Number" /\ IsZero(n.right.value)
     THEN << DivisionByZeroWarning >> ELSE << >>)
    \o
    (IF n.op = "^" /\ n.left.node = "Number" /\ n.right.node = "Number"
        /\ IsNegative(n.left.value) /\ ~IsZero(Fract(n.right.value))
     THEN << ComplexWarning >> ELSE << >>)

RECURSIVE SemanticCheckRecursive(_, _)
\* semantic_check_recursive visiting the right child before the left child
SemanticCheckRecursiveRightFirst(n, w) ==
    CASE n.node = "BinaryOp" ->
           SemanticCheckRecursive(n.left,
               SemanticCheckRecursive(n.right, w \o OwnWarnings(n)))
      [] n.node = "UnaryOp" -> SemanticCheckRecursive(n.operand, w)
      [] OTHER -> w

\* ASTNode::semantic_check_recursive: the warnings vector after the call
SemanticCheckRecursive(n, w) ==
    CASE n.node = "BinaryOp" ->
           SemanticCheckRecursive(n.right,
               SemanticCheckRecursive(n.left, w \o OwnWarnings(n)))
      [] n.node = "UnaryOp" -> SemanticCheckRecursive(n.operand, w)
      [] OTHER -> w

\* ASTNode::semantic_check
SemanticCheck(n) == SemanticCheckRecursive(n, << >>)

-----------------------------------------------------------------------------
(* impl Display for ASTNode, ASTNode::evaluate and ASTNode::optimize       *)
(* (src/src/ast.rs).                                                        *)

RECURSIVE Display(_)
\* impl Display for ASTNode
Display(n) ==
    CASE n.node = "Number" -> FormatF64(n.value)
      [] n.node = "Identifier" -> "id" \o ToString(n.idx)
      [] n.node = "BinaryOp" ->
           "(" \o Display(n.left) \o " " \o n.op \o " " \o Display(n.right) \o ")"
      [] n.node = "UnaryOp" -> n.op \o "(" \o Display(n.operand) \o ")"

\* the match on op of evaluate, l and r being the values of the operands
EvaluateOp(op, l, r) ==
    CASE op = "+" -> AddF64(l, r)
      [] op = "-" -> SubF64(l, r)
      [] op = "*" -> MulF64(l, r)
      [] op = "/" -> DivF64(l, r)
      [] op = "^" -> Powf(l, r)
      [] op = "=" -> r
      [] OTHER -> PosZero

\* the match on op of evaluate for a UnaryOp, val being the value of the operand
EvaluateUnary(op, val) == IF op = "sqrt" THEN PowfHalf(val) ELSE val

RECURSIVE Evaluate(_)
\* ASTNode::evaluate
Evaluate(n) ==
    CASE n.node = "Number" -> n.value
      [] n.node = "Identifier" -> PosZero
      [] n.node = "BinaryOp" -> EvaluateOp(n.op, Evaluate(n.left), Evaluate(n.right))
      [] n.node = "UnaryOp" -> EvaluateUnary(n.op, Evaluate(n.operand))

\* the pattern ASTNode::Number(0.0)
IsNumberZero(n) == n.node = "Number" /\ IsZero(n.value)

\* the pattern ASTNode::Number(1.0)
IsNumberOne(n) == n.node = "Number" /\ IsOne(n.value)

\* a constant folding that folds every division
FoldEveryDivision(op, l, r) ==
    CASE op = "+" -> Number(AddF64(l, r))
      [] op = "-" -> Number(SubF64(l, r))
      [] op = "*" -> Number(MulF64(l, r))
      [] op = "/" -> Number(DivF64(l, r))
      [] op = "^" -> Number(Powf(l, r))
      [] OTHER -> BinaryOp(op, Number(l), Number(r))

\* a constant folding that takes the operands in the other order
FoldOperandsSwapped(op, l, r) ==
    CASE op = "+" -> Number(AddF64(r, l))
      [] op = "-" -> Number(SubF64(r, l))
      [] op = "*" -> Number(MulF64(r, l))
      [] op = "/" /\ ~IsZero(r) -> Number(DivF64(r, l))
      [] op = "^" -> Number(Powf(r, l))
      [] OTHER -> BinaryOp(op, Number(l), Number(r))

\* constant folding: op over the literals l and r
Fold(op, l, r) ==
    CASE op = "+" -> Number(AddF64(l, r))
      [] op = "-" -> Number(SubF64(l, r))
      [] op = "*" -> Number(MulF64(l, r))
      [] op = "/" /\ ~IsZero(r) -> Number(DivF64(l, r))
      [] op = "^" -> Number(Powf(l, r))
      [] OTHER -> BinaryOp(op, Number(l), Number(r))

\* an algebraic simplification that looks at the right operand only
SimplifyByRightOperand(op, left_opt, right_opt) ==
    CASE op = "+" /\ IsNumberZero(right_opt) -> left_opt
      [] op = "-" /\ IsNumberZero(right_opt) -> left_opt
      [] op = "*" /\ IsNumberZero(right_opt) -> Number(PosZero)
      [] op = "*" /\ IsNumberOne(right_opt) -> left_opt
      [] op = "/" /\ IsNumberOne(right_opt) -> left_opt
      [] op = "^" /\ IsNumberZero(right_opt) -> Number(One)
      [] op = "^" /\ IsNumberOne(right_opt) -> left_opt
      [] OTHER -> BinaryOp(op, left_opt, right_opt)

\* algebraic simplification: the first arm of the match that applies
Simplify(op, left_opt, right_opt) ==
    CASE op = "+" /\ IsNumberZero(right_opt) -> left_opt
      [] op = "+" /\ IsNumberZero(left_opt) -> right_opt
      [] op = "-" /\ IsNumberZero(right_opt) -> left_opt
      [] op = "*" /\ (IsNumberZero(right_opt) \/ IsNumberZero(left_opt)) ->
           Number(PosZero)
      [] op = "*" /\ IsNumberOne(right_opt) -> left_opt
      [] op = "*" /\ IsNumberOne(left_opt) -> right_opt
      [] op = "/" /\ IsNumberOne(right_opt) -> left_opt
      [] op = "^" /\ IsNumberZero(right_opt) -> Number(One)
      [] op = "^" /\ IsNumberOne(right_opt) -> left_opt
      [] OTHER -> BinaryOp(op, left_opt, right_opt)

\* optimize of a BinaryOp after its operands are optimized
OptimizeBinary(op, left_opt, right_opt) ==
    IF left_opt.node = "Number" /\ right_opt.node = "Number"
    THEN Fold(op, left_opt.value, right_opt.value)
    ELSE Simplify(op, left_opt, right_opt)

\* optimize of a UnaryOp after its operand is optimized
OptimizeUnary(op, operand_opt) ==
    IF operand_opt.node = "Number" /\ op = "sqrt"
    THEN Number(PowfHalf(operand_opt.value))
    ELSE UnaryOp(op, operand_opt)

\* an optimize that does not optimize the operands first
OptimizeOperandsAsTheyAre(n) ==
    CASE n.node = "BinaryOp" -> OptimizeBinary(n.op, n.left, n.right)
      [] n.node = "UnaryOp" -> OptimizeUnary(n.op, n.operand)
      [] OTHER -> n

RECURSIVE Optimize(_)
\* ASTNode::optimize
Optimize(n) ==
    CASE n.node = "BinaryOp" ->
           OptimizeBinary(n.op, Optimize(n.left), Optimize(n.right))
      [] n.node = "UnaryOp" -> OptimizeUnary(n.op, Optimize(n.operand))
      [] OTHER -> n

-----------------------------------------------------------------------------
(* ParseResult::peephole_optimize (src/src/parser.rs).  A line is the      *)
(* sequence of its whitespace-separated parts, what split_whitespace gives. *)

RECURSIVE AllNumeric(_)
\* s.chars().all(|c| c.is_numeric()) for the string s
AllNumeric(s) == Len(s) = 0 \/ (IsNumeric(Head(s)) /\ AllNumeric(Tail(s)))

\* lhs.starts_with('t') && lhs.chars().skip(1).all(|c| c.is_numeric())
IsTempName(part) == Len(part) > 0 /\ Head(part) = "t" /\ AllNumeric(Tail(part))

RECURSIVE TrimEnd(_)
\* part.trim_end_matches(|c: char| !c.is_alphanumeric())
TrimEnd(part) ==
    IF Len(part) = 0 \/ IsAlphanumeric(SubSeq(part, Len(part), Len(part)))
    THEN part
    ELSE TrimEnd(SubSeq(part, 1, Len(part) - 1))

\* the key of temp_usage_count a part of a right-hand side counts for: the
\* part without its trailing characters that are not alphanumeric, where
\* that is the name of a temporary ("" if it is not)
CountedTemp(part) == IF IsTempName(TrimEnd(part)) THEN TrimEnd(part) ELSE ""

\* parts.len() >= 3 && parts[1] == "="
IsAssignment(parts) == Len(parts) >= 3 /\ parts[2] = "="

\* parts[2..]
Rhs(parts) == SubSeq(parts, 3, Len(parts))

RECURSIVE CountIn(_, _)
\* the parts of the sequence parts that count for the temporary t
CountIn(parts, t) ==
    IF parts = << >> THEN 0
    ELSE (IF CountedTemp(Head(parts)) = t THEN 1 ELSE 0) + CountIn(Tail(parts), t)

RECURSIVE UsageCount(_, _)
\* first pass: temp_usage_count.get(t).unwrap_or(0)
UsageCount(code, t) ==
    IF code = << >> THEN 0
    ELSE (IF IsAssignment(Head(code)) THEN CountIn(Rhs(Head(code)), t) ELSE 0)
         + UsageCount(Tail(code), t)

\* first pass: the lines that insert a definition of t into temp_definitions
DefinitionsOf(code, t) ==
    { i \in 1..Len(code) : IsAssignment(code[i]) /\ code[i][1] = t /\ IsTempName(t) }

\* first pass: temp_definitions.get(t), the right-hand side inserted last
TempDefinition(code, t) ==
    Rhs(code[CHOOSE i \in DefinitionsOf(code, t) :
                 \A j \in DefinitionsOf(code, t) : j <= i])

\* a second pass that marks no line
SkipIndicesEmpty(code) == {}

\* second pass: skip_indices (lines numbered from 1)
SkipIndices(code) ==
    { i \in 1..(Len(code) - 1) :
        /\ IsAssignment(code[i]) /\ IsAssignment(code[i + 1])
        /\ IsTempName(code[i][1])
        /\ Rhs(code[i + 1]) = << code[i][1] >>
        /\ UsageCount(code, code[i][1]) = 1 }

\* third pass: the line pushed for a line that is not skipped
OutputLine(code, parts) ==
    IF /\ IsAssignment(parts)
       /\ Len(parts) = 3
       /\ DefinitionsOf(code, parts[3]) # {}
       /\ UsageCount(code, parts[3]) = 1
    THEN << parts[1], "=" >> \o TempDefinition(code, parts[3])
    ELSE parts

RECURSIVE ThirdPass(_, _, _)
\* third pass from line i on
ThirdPass(code, i, skip_indices) ==
    IF i > Len(code) THEN << >>
    ELSE (IF i \in skip_indices THEN << >> ELSE << OutputLine(code, code[i]) >>)
         \o ThirdPass(code, i + 1, skip_indices)

\* ParseResult::peephole_optimize
PeepholeOptimize(code) == ThirdPass(code, 1, SkipIndices(code))

-----------------------------------------------------------------------------
(* ParseResult::from_input (src/src/parser.rs).                            *)

\* from_input after `let optimized_ast = ast.optimize()`: the optimized
\* three-address code
OptimizedCode(optimized_ast) ==
    PeepholeOptimize(ToThreeAddressCode(optimized_ast, 1).code)

\* from_input after `let ast = parser.parse()`, p being the parser as parse
\* left it with the Result of parse: the Err of parse, or the ParseResult
ParseResultOf(toks, identifier_table, p) ==
    IF Failed(p) THEN [parser |-> Some(p.parser), res |-> p.res]
    ELSE [parser |-> Some(p.parser),
          res |-> Ok([tokens |-> toks,
                      ast |-> p.res.value,
                      identifier_table |-> identifier_table,
                      semantic_warnings |-> SemanticCheck(p.res.value),
                      three_address_code |->
                          ToThreeAddressCode(p.res.value, 1).code,
                      optimized_ast |-> Optimize(p.res.value),
                      optimized_three_address_code |->
                          OptimizedCode(Optimize(p.res.value))])]

\* from_input after Lexer::tokenize has returned lexres to it: the Parser as
\* the call leaves it (None when none was made) and the Result it returns
FromInputRest(lx, lexres) ==
    IF lexres.tag = "Err" THEN [parser |-> None, res |-> lexres]
    ELSE IF lexres.value = << >>
    THEN [parser |-> None, res |-> Err(UnexpectedEndOfInput)]
    ELSE ParseResultOf(lexres.value, IntoIdentifierTable(lx),
                       Parse(Parser_new(lexres.value)))

\* from_input after `lexer.tokenize()`, t being the lexer as tokenize left it
\* with the Result of tokenize
FromInputAfter(t) == FromInputRest(t.lexer, t.res).res

\* ParseResult::from_input
FromInput(in) == FromInputAfter(Tokenize(Lexer_new(in)))

-----------------------------------------------------------------------------
(* One compilation, from_input(input), step by step: each call of           *)
(* Lexer::next_token by the loop of Lexer::tokenize is a step, and the rest *)
(* of from_input, after tokenize has returned, is one step.                 *)

AppIdle == /\ parse_result = None
           /\ error = None

TreeIdle == /\ ast = None
            /\ warnings = None
            /\ tac = None

OptimizeIdle == /\ optimized = << >>
                /\ value = << >>

PeepholeIdle == /\ lines = None
                /\ optimized_code = None

\* the state from_input(in) starts in
InitCompile(in) ==
    /\ build \in Builds
    /\ input = in
    /\ lexer = Lexer_new(in)
    /\ tokens = << >>
    /\ lex_result = Running
    /\ parser = None
    /\ outcome = Running
    /\ AppIdle
    /\ OptimizeIdle
    /\ PeepholeIdle

\* a pass of the loop of Lexer::tokenize that leaves the lexer where it was
\* when next_token yields a token
LexStepKeepsLexer ==
    /\ lexer # None
    /\ lex_result = Running
    /\ LET r == NextToken(lexer) IN
         IF r.res.tag = "Err"
         THEN lexer' = r.lexer /\ tokens' = tokens /\ lex_result' = r.res
         ELSE IF r.res.value = None
         THEN lexer' = r.lexer /\ tokens' = tokens /\ lex_result' = Ok(tokens)
         ELSE lexer' = lexer /\ tokens' = Append(tokens, r.res.value.value)
              /\ lex_result' = Running
    /\ UNCHANGED << input, parse_result, error, parser, outcome, ast, warnings, tac,
                    optimized, value, lines, optimized_code, build >>

\* one pass of the loop of Lexer::tokenize
LexStep ==
    /\ lexer # None
    /\ lex_result = Running
    /\ LET r == NextToken(lexer) IN
         /\ lexer' = r.lexer
         /\ IF r.res.tag = "Err"
            THEN tokens' = tokens /\ lex_result' = r.res
            ELSE IF r.res.value = None
            THEN tokens' = tokens /\ lex_result' = Ok(tokens)
            ELSE tokens' = Append(tokens, r.res.value.value) /\ lex_result' = Running
    /\ UNCHANGED << input, parse_result, error, parser, outcome, ast, warnings, tac,
                    optimized, value, lines, optimized_code, build >>

\* from_input returns: r holds its Parser and its Result
ReturnFromInput(r) ==
    /\ parser' = r.parser
    /\ outcome' = r.res

\* from_input from the return of tokenize to its own return
FromInputStep ==
    /\ lex_result # Running
    /\ outcome = Running
    /\ ReturnFromInput(FromInputRest(lexer, lex_result))
    /\ UNCHANGED << input, parse_result, error, lexer, tokens, lex_result,
                    ast, warnings, tac,
                    optimized, value, lines, optimized_code, build >>

NextCompile == LexStep \/ FromInputStep

RECURSIVE Concatenations(_, _)
\* the concatenations of at most k sequences of the set pieces
Concatenations(pieces, k) ==
    IF k = 0 THEN { << >> }
    ELSE LET shorter == Concatenations(pieces, k - 1)
         IN  shorter \cup { s \o w : s \in shorter, w \in pieces }

\* the pieces the inputs of the lexer specification are made of
LexPieces == { <<"a">>, <<"a", "\n", "\f">>, <<"x", "\t">>, <<"1">>, <<".">>,
               <<" ", "\r", "">>, <<"+">>, <<"#">>,
               <<"S", "q", "R", "T", " ">> }

LexInputs == Concatenations(LexPieces, MaxPieces)

InitLexer == TreeIdle /\ \E in \in LexInputs : InitCompile(in)

\* compilations of the inputs LexInputs
SpecLexer == InitLexer /\ [][NextCompile]_vars

-----------------------------------------------------------------------------
(* The tree functions of ASTNode applied to a tree, in the order from_input *)
(* applies them: semantic_check, then to_three_address_code with a          *)
(* temp_counter of 1.                                                       *)

CompileIdle ==
    /\ input = << >>
    /\ lexer = None
    /\ tokens = << >>
    /\ lex_result = Running
    /\ parser = None
    /\ outcome = Running

\* ast.semantic_check()
SemanticCheckStep ==
    /\ ast # None
    /\ warnings = None
    /\ warnings' = Some(SemanticCheck(ast.value))
    /\ UNCHANGED << input, parse_result, error, lexer, tokens, lex_result,
                    parser, outcome, ast, tac,
                    optimized, value, lines, optimized_code, build >>

\* ast.to_three_address_code(&mut temp_counter), temp_counter being 1
ThreeAddressCodeStep ==
    /\ warnings # None
    /\ tac = None
    /\ tac' = Some(ToThreeAddressCode(ast.value, 1))
    /\ UNCHANGED << input, parse_result, error, lexer, tokens, lex_result,
                    parser, outcome, ast, warnings,
                    optimized, value, lines, optimized_code, build >>

NextTree == SemanticCheckStep \/ ThreeAddressCodeStep

RECURSIVE TreesWith(_, _, _, _), BinaryTrees(_, _, _, _, _)
\* the trees of exactly n operator nodes over the given leaves and operators
TreesWith(n, leaves, binary, unary) ==
    IF n = 0 THEN leaves
    ELSE { UnaryOp(op, t) : op \in unary, t \in TreesWith(n - 1, leaves, binary, unary) }
         \cup BinaryTrees(n, n - 1, leaves, binary, unary)

\* those of them with a binary root and at most i operator nodes to its left
BinaryTrees(n, i, leaves, binary, unary) ==
    IF i < 0 THEN {}
    ELSE { BinaryOp(op, l, r) :
             op \in binary,
             l \in TreesWith(i, leaves, binary, unary),
             r \in TreesWith(n - 1 - i, leaves, binary, unary) }
         \cup BinaryTrees(n, i - 1, leaves, binary, unary)

\* trees with literal zeros, negative and fractional literals under / and ^
WarningTrees(n) ==
    TreesWith(n, { Number(Rat(0, 1)), Number(Rat(-1, 2)) }, {"/", "^"}, {"sqrt"})

\* trees with identifiers and assignments
AssignTrees(n) ==
    TreesWith(n, { Identifier("a", 1), Number(Rat(3, 2)) }, {"-", "="}, {"sqrt"})

InitTree ==
    /\ build \in Builds
    /\ CompileIdle
    /\ AppIdle
    /\ \E n \in 0..MaxOps : \E t \in WarningTrees(n) \cup AssignTrees(n) :
         ast = Some(t)
    /\ warnings = None
    /\ tac = None
    /\ OptimizeIdle
    /\ PeepholeIdle

\* the tree functions on trees of at most MaxOps operator nodes
SpecTree == InitTree /\ [][NextTree]_vars

-----------------------------------------------------------------------------
(* The warnings of semantic_check (C9).                                     *)

RECURSIVE PreOrder(_)
\* the nodes of t in pre-order: t, those of its left subtree, those of its
\* right subtree
PreOrder(t) ==
    CASE t.node = "BinaryOp" -> << t >> \o PreOrder(t.left) \o PreOrder(t.right)
      [] t.node = "UnaryOp" -> << t >> \o PreOrder(t.operand)
      [] OTHER -> << t >>

\* a '/' node whose right operand is the literal 0
DividesByLiteralZero(n) ==
    /\ n.node = "BinaryOp" /\ n.op = "/"
    /\ n.right = Number(Rat(0, 1))

\* a '^' node with a literal negative base and a literal fractional exponent
\* (a value in lowest terms is fractional if its denominator is not 1)
NegativeToFraction(n) ==
    /\ n.node = "BinaryOp" /\ n.op = "^"
    /\ n.left.node = "Number" /\ n.left.value[1] < 0
    /\ n.right.node = "Number" /\ n.right.value[2] # 1

RECURSIVE WarningsAlong(_)
\* one warning for every node of the sequence nodes that asks for one, in order
WarningsAlong(nodes) ==
    IF nodes = << >> THEN << >>
    ELSE (IF DividesByLiteralZero(Head(nodes))
          THEN << "Warning: Division by zero detected" >>
          ELSE IF NegativeToFraction(Head(nodes))
          THEN << "Warning: Negative base with fractional exponent may produce complex numbers" >>
          ELSE << >>)
         \o WarningsAlong(Tail(nodes))

\* C9: semantic_check returns one division-by-zero warning for every '/' node
\* whose right operand is the literal 0, one complex-result warning for every
\* '^' node with a literal negative base and a literal fractional exponent,
\* and no other warning, in the pre-order of the nodes.
C9_WarningsInPreOrder ==
    warnings # None => warnings.value = WarningsAlong(PreOrder(ast.value))

\* a division by the literal 0 whose left operand holds a power that warns:
\* the warning of the division comes first
C9_Witness ==
    /\ warnings = Some(<< DivisionByZeroWarning, ComplexWarning >>)
    /\ ast.value.right = Number(Rat(0, 1))

-----------------------------------------------------------------------------
(* The lines of to_three_address_code (C10).                                *)

RECURSIVE OperatorCount(_)
\* the number of operator nodes of t
OperatorCount(t) ==
    CASE t.node = "BinaryOp" -> OperatorCount(t.left) + OperatorCount(t.right) + 1
      [] t.node = "UnaryOp" -> OperatorCount(t.operand) + 1
      [] OTHER -> 0

RECURSIVE PostOrderOps(_)
\* the operators of the operator nodes of t in post-order
PostOrderOps(t) ==
    CASE t.node = "BinaryOp" ->
           PostOrderOps(t.left) \o PostOrderOps(t.right) \o << t.op >>
      [] t.node = "UnaryOp" -> Append(PostOrderOps(t.operand), t.op)
      [] OTHER -> << >>

\* the line of the operator node t, the lines of the subtree t coming after
\* the line number first of code: the last of them
OwnLine(t, code, first) == code[first + OperatorCount(t)]

\* how a line refers to the subtree t: a leaf by its text, an operator node
\* by the destination of its line
Operand(t, code, first) ==
    CASE t.node = "Number" -> FormatF64(t.value)
      [] t.node = "Identifier" -> "id" \o ToString(t.idx)
      [] OTHER -> OwnLine(t, code, first)[1]

\* line is the line of the operator node t
IsLineOf(t, line, code, first) ==
    IF t.node = "UnaryOp"
    THEN /\ Len(line) = 3 /\ line[2] = "="
         /\ line[3] = t.op \o "(" \o Operand(t.operand, code, first) \o ")"
    ELSE IF t.op = "="
    THEN line = << Operand(t.left, code, first), "=",
                   Operand(t.right, code, first + OperatorCount(t.left)) >>
    ELSE /\ Len(line) = 5 /\ line[2] = "="
         /\ line[3] = Operand(t.left, code, first)
         /\ line[4] = t.op
         /\ line[5] = Operand(t.right, code, first + OperatorCount(t.left))

RECURSIVE InPostOrder(_, _, _)
\* the lines of the subtree t are the lines first+1.. of code in post-order:
\* those of the left child, then those of the right child, then its own
InPostOrder(t, code, first) ==
    CASE t.node = "BinaryOp" ->
           /\ InPostOrder(t.left, code, first)
           /\ InPostOrder(t.right, code, first + OperatorCount(t.left))
           /\ IsLineOf(t, OwnLine(t, code, first), code, first)
      [] t.node = "UnaryOp" ->
           /\ InPostOrder(t.operand, code, first)
           /\ IsLineOf(t, OwnLine(t, code, first), code, first)
      [] OTHER -> TRUE

\* the lines of code that belong to the nodes of t other than assignments
LinesOfNonAssignments(t) ==
    { k \in 1..OperatorCount(t) : PostOrderOps(t)[k] # "=" }

\* C10: to_three_address_code emits one line per operator node and none for
\* leaves, in post-order (the lines of the left child, then those of the
\* right child, then the line of the node); the line of every node that is
\* not an assignment assigns a temporary that the line of no other such node
\* assigns.
C10_LinesInPostOrder ==
    tac # None =>
        /\ Len(tac.value.code) = OperatorCount(ast.value)
        /\ InPostOrder(ast.value, tac.value.code, 0)
        /\ \A k \in LinesOfNonAssignments(ast.value) :
             /\ \E n \in 1..OperatorCount(ast.value) :
                  tac.value.code[k][1] = "t" \o ToString(n)
             /\ \A m \in LinesOfNonAssignments(ast.value) :
                  m # k => tac.value.code[m][1] # tac.value.code[k][1]

\* the code of a subtraction whose operands are both operator nodes
C10_Witness ==
    /\ tac # None
    /\ ast.value.node = "BinaryOp" /\ ast.value.op = "-"
    /\ ast.value.left.node = "BinaryOp"
    /\ ast.value.right.node = "UnaryOp"
    /\ tac.value.code[3] = <<"t3", "=", "t1", "-", "t2">>

-----------------------------------------------------------------------------
(* The identifier table (C1).                                               *)

\* the end of the maximal run of characters satisfying In(_) that starts at i
RunEnd(s, i, In(_)) ==
    CHOOSE j \in i..Len(s) :
        /\ \A m \in i..j : In(s[m])
        /\ j = Len(s) \/ ~In(s[j + 1])

\* the run s[i..j] of letters, digits and '_' without its leading digits
WithoutLeadingDigits(s, i, j) ==
    IF \A m \in i..j : IsNumeric(s[m]) THEN << >>
    ELSE SubSeq(s, CHOOSE k \in i..j : /\ ~IsNumeric(s[k])
                                       /\ \A m \in i..(k - 1) : IsNumeric(s[m]),
                j)

RECURSIVE WordsFrom(_, _)
\* the words of s from position i on, in order: the maximal runs of letters,
\* digits and '_', each without its leading digits
WordsFrom(s, i) ==
    IF i > Len(s) THEN << >>
    ELSE IF ~IdentifierChar(s[i]) THEN WordsFrom(s, i + 1)
    ELSE LET j == RunEnd(s, i, IdentifierChar)
             w == WithoutLeadingDigits(s, i, j)
         IN  (IF w = << >> THEN << >> ELSE << w >>) \o WordsFrom(s, j + 1)

IsSqrtSpelling(w) == ToLowercase(w) = SqrtKeyword

NotSqrtSpelling(w) == ~IsSqrtSpelling(w)

\* the identifier names of s, one per occurrence, in order
IdentifierNames(s) == SelectSeq(WordsFrom(s, 1), NotSqrtSpelling)

RECURSIVE FirstAppearances(_, _)
\* the distinct elements of names in the order of their first appearance, after seen
FirstAppearances(names, seen) ==
    IF names = << >> THEN seen
    ELSE IF \E i \in 1..Len(seen) : seen[i] = Head(names)
    THEN FirstAppearances(Tail(names), seen)
    ELSE FirstAppearances(Tail(names), Append(seen, Head(names)))

IsIdentifierToken(t) == t.type = "Identifier"

\* C1: after Lexer::tokenize succeeds, the identifier table lists exactly the
\* distinct identifier names of the input other than spellings of sqrt, with
\* the indices 1..n in the order of first appearance; the Identifier tokens
\* are the occurrences of these names, each with the index of its name, and
\* no index is given to two names.
C1_IdentifierTable ==
    lex_result.tag = "Ok" =>
        LET occurrences == IdentifierNames(input)
            names == FirstAppearances(occurrences, << >>)
            identifiers == SelectSeq(tokens, IsIdentifierToken)
        IN  /\ IntoIdentifierTable(lexer)
                 = [i \in 1..Len(names) |-> << Str(names[i]), i >>]
            /\ Len(identifiers) = Len(occurrences)
            /\ \A k \in 1..Len(identifiers) :
                 /\ identifiers[k].name = Str(occurrences[k])
                 /\ identifiers[k].idx \in 1..Len(names)
                 /\ names[identifiers[k].idx] = occurrences[k]
            /\ \A e, f \in lexer.identifier_map : e[2] = f[2] => e[1] = f[1]

\* a name comes back after another one, beside a spelling of sqrt
C1_Witness ==
    /\ lex_result.tag = "Ok"
    /\ \E t \in 1..Len(tokens) : tokens[t].type = "Sqrt"
    /\ \E i, j, k \in 1..Len(tokens) :
         /\ i < j /\ j < k
         /\ tokens[i].type = "Identifier" /\ tokens[j].type = "Identifier"
         /\ tokens[k] = tokens[i]
         /\ tokens[j].idx = 2 /\ tokens[i].idx = 1

-----------------------------------------------------------------------------
(* Inputs without lexemes (C6).                                             *)

\* C6: compiling an input with no lexemes (empty or whitespace only) fails
\* with UnexpectedEndOfInput: the lexer succeeds with no tokens, and
\* from_input returns the error before it makes a parser.
C6_EmptyInput ==
    ((\A i \in 1..Len(input) : IsWhitespace(input[i])) /\ outcome # Running) =>
        /\ lex_result = Ok(<< >>)
        /\ lexer.pos = Len(input)
        /\ outcome = Err(UnexpectedEndOfInput)
        /\ parser = None

\* a whitespace-only input, not of spaces only, has been compiled
C6_Witness ==
    /\ Len(input) >= 2
    /\ \A i \in 1..Len(input) : IsWhitespace(input[i])
    /\ \E i \in 1..Len(input) : input[i] # " "
    /\ outcome = Err(UnexpectedEndOfInput)

-----------------------------------------------------------------------------
(* Numeric lexemes (C8).                                                    *)

DigitOrPoint(ch) == ch \in Digits \cup {"."}

\* s[i..j] is a maximal run of digits and '.'
IsNumberRun(s, i, j) ==
    /\ 1 <= i /\ i <= j /\ j <= Len(s)
    /\ \A m \in i..j : DigitOrPoint(s[m])
    /\ i = 1 \/ ~DigitOrPoint(s[i - 1])
    /\ j = Len(s) \/ ~DigitOrPoint(s[j + 1])

\* tokenize on the input before position i
TokenizeBefore(i) == Tokenize(Lexer_new(SubSeq(input, 1, i - 1))).res

\* the run input[i..j] is recognized as one numeric lexeme: after the tokens
\* of the input before it comes one Number token of its value if it is a
\* valid literal, and tokenize fails with InvalidNumber of its text if not
RecognizedAsNumber(i, j, before) ==
    IF ParseF64(SubSeq(input, i, j)).ok
    THEN /\ Len(tokens) > Len(before)
         /\ SubSeq(tokens, 1, Len(before)) = before
         /\ tokens[Len(before) + 1] = TokNumber(ParseF64(SubSeq(input, i, j)).value)
         /\ lexer.pos >= j
    ELSE /\ tokens = before
         /\ lex_result = Err(InvalidNumber(Str(SubSeq(input, i, j))))

\* the run input[i..j] is reached by a tokenize that has returned: the input
\* before it tokenizes without error
RunReached(i, j) ==
    /\ lex_result # Running
    /\ IsNumberRun(input, i, j)
    /\ TokenizeBefore(i).tag = "Ok"

\* C8 as stated: every maximal run of digits and '.' is recognized as one
\* numeric lexeme.
C8_EveryRun ==
    \A i, j \in 1..Len(input) :
        RunReached(i, j) => RecognizedAsNumber(i, j, TokenizeBefore(i).value)

\* C8, amended: a maximal run of digits and '.' is recognized as one numeric
\* lexeme if it starts with a digit and does not follow a letter, a digit or
\* '_' (where it continues an identifier); a run that starts with '.' fails
\* tokenize with InvalidToken(".").
C8_RunsStartingALexeme ==
    \A i, j \in 1..Len(input) :
        RunReached(i, j) =>
            /\ (IsNumeric(input[i]) /\ (i = 1 \/ ~IdentifierChar(input[i - 1])))
                 => RecognizedAsNumber(i, j, TokenizeBefore(i).value)
            /\ input[i] = "."
                 => /\ lex_result = Err(InvalidToken("."))
                    /\ tokens = TokenizeBefore(i).value

\* a run with two decimal points has failed tokenize after a first token
C8_Witness ==
    /\ lex_result.tag = "Err"
    /\ lex_result.error.kind = "InvalidNumber"
    /\ lex_result.error.msg = "1.."
    /\ Len(tokens) = 1

-----------------------------------------------------------------------------
(* Compilations of inputs made of whole lexemes.                            *)

\* the lexemes the inputs of the parser specification are made of, each
\* followed by a space
ParserWords == { <<"1", " ">>, <<"a", " ">>, <<"+", " ">>, <<"-", " ">>,
                 <<"*", " ">>, <<"/", " ">>, <<"^", " ">>, <<"(", " ">>,
                 <<")", " ">>, <<"=", " ">>, SqrtKeyword \o <<" ">> }

ParserInputs == Concatenations(ParserWords, MaxTokens)

InitParser == TreeIdle /\ \E in \in ParserInputs : InitCompile(in)

\* compilations of the inputs ParserInputs
SpecParser == InitParser /\ [][NextCompile]_vars

-----------------------------------------------------------------------------
(* The tokens parse consumes (C2).                                          *)

\* C2: whenever Parser::parse returns an AST, the cursor of the parser
\* equals the number of tokens.
C2_ConsumesAllTokens ==
    outcome.tag = "Ok" => parser.value.pos = Len(parser.value.tokens)

-----------------------------------------------------------------------------
(* The errors of parse (C7).                                                *)

BinaryOperatorTokens == {"Plus", "Minus", "Multiply", "Divide", "Power"}

RECURSIVE PrimaryScan(_, _, _, _)
\* A reading of toks from left to right, i tokens being read, that needs a
\* "primary" (at the start, after a binary operator, '=' or '('), the
\* "operand of sqrt" (after sqrt) or an "operator" (after a primary), inside
\* depth open parentheses.  An '=' after a primary leaves every open
\* parenthesis.  The reading ends "Ok" where what follows a primary continues
\* no expression, with "EndOfInput" where a primary is needed and no token is
\* left, and with "Unexpected" at a token that starts no primary.
PrimaryScan(toks, i, need, depth) ==
    IF need = "operator"
    THEN IF i = Len(toks) THEN [kind |-> "Ok", at |-> i]
         ELSE IF toks[i + 1].type \in BinaryOperatorTokens
         THEN PrimaryScan(toks, i + 1, "primary", depth)
         ELSE IF toks[i + 1].type = "Assign"
         THEN PrimaryScan(toks, i + 1, "primary", 0)
         ELSE IF toks[i + 1].type = "RParen" /\ depth > 0
         THEN PrimaryScan(toks, i + 1, "operator", depth - 1)
         ELSE [kind |-> "Ok", at |-> i]
    ELSE IF i = Len(toks) THEN [kind |-> "EndOfInput", at |-> i]
         ELSE IF toks[i + 1].type \in {"Number", "Identifier"}
         THEN PrimaryScan(toks, i + 1, "operator", depth)
         ELSE IF toks[i + 1].type = "LParen"
         THEN PrimaryScan(toks, i + 1, "primary", depth + 1)
         ELSE IF toks[i + 1].type = "Sqrt" /\ need = "primary"
         THEN PrimaryScan(toks, i + 1, "operand of sqrt", depth)
         ELSE [kind |-> "Unexpected", at |-> i + 1]

\* the textual form of a token that starts no primary
TextualForm(t) ==
    CASE t.type = "Plus" -> "PLUS"
      [] t.type = "Minus" -> "MINUS"
      [] t.type = "Multiply" -> "MUL"
      [] t.type = "Divide" -> "DIV"
      [] t.type = "Power" -> "POW"
      [] t.type = "RParen" -> "RPAREN"
      [] t.type = "Sqrt" -> "SQRT"
      [] t.type = "Assign" -> "ASSIGN"

\* the outcome of from_input on tokens whose reading ends as scan says
OutcomeAgreesWith(scan) ==
    CASE scan.kind = "EndOfInput" ->
            /\ outcome = Err(UnexpectedEndOfInput)
            /\ parser.value.pos = Len(tokens)
      [] scan.kind = "Unexpected" ->
            /\ outcome = Err(UnexpectedToken(TextualForm(tokens[scan.at])))
            /\ parser.value.pos = scan.at
      [] scan.kind = "Ok" ->
            /\ outcome.tag = "Ok"
            /\ parser.value.pos = scan.at

\* C7: where the parser needs a primary and no token is left, parsing fails
\* with UnexpectedEndOfInput; where the next token is not a Number, an
\* Identifier or '(', it fails with UnexpectedToken of the textual form of
\* that token; no AST is returned in either case, and parsing fails nowhere
\* else.
C7_PrimaryErrors ==
    (outcome # Running /\ tokens # << >>) =>
        OutcomeAgreesWith(PrimaryScan(tokens, 0, "primary", 0))

\* a ')' was met where the right operand of an operator was needed
C7_Witness ==
    /\ outcome = Err(UnexpectedToken("RPAREN"))
    /\ parser # None
    /\ parser.value.pos = 4
    /\ tokens[1].type = "LParen"

-----------------------------------------------------------------------------
(* sqrt (C4).                                                               *)

RECURSIVE CloseOf(_, _, _)
\* the position of the ')' that closes the parenthesis open at position k
\* of toks inside depth parentheses, 0 if there is none
CloseOf(toks, k, depth) ==
    IF k > Len(toks) THEN 0
    ELSE IF toks[k].type = "LParen" THEN CloseOf(toks, k + 1, depth + 1)
    ELSE IF toks[k].type # "RParen" THEN CloseOf(toks, k + 1, depth)
    ELSE IF depth = 1 THEN k
    ELSE CloseOf(toks, k + 1, depth - 1)

\* the expression of all the tokens toks, None if they are not an expression
WholeExpression(r, toks) ==
    IF r.res.tag = "Ok" /\ r.parser.pos = Len(toks) THEN Some(r.res.value) ELSE None

\* the primary that starts at position k of toks and its last position:
\* a Number, an Identifier, or an expression between '(' and its ')'
PrimaryAt(toks, k) ==
    IF k > Len(toks) THEN [tree |-> None, last |-> 0]
    ELSE IF toks[k].type = "Number"
    THEN [tree |-> Some(Number(toks[k].value)), last |-> k]
    ELSE IF toks[k].type = "Identifier"
    THEN [tree |-> Some(Identifier(toks[k].name, toks[k].idx)), last |-> k]
    ELSE IF toks[k].type = "LParen" /\ CloseOf(toks, k + 1, 1) > k + 1
    THEN [tree |-> WholeExpression(
                       ParseExpr(Parser_new(
                           SubSeq(toks, k + 1, CloseOf(toks, k + 1, 1) - 1))),
                       SubSeq(toks, k + 1, CloseOf(toks, k + 1, 1) - 1)),
          last |-> CloseOf(toks, k + 1, 1)]
    ELSE [tree |-> None, last |-> 0]

\* position i of tokens holds a Sqrt token that follows no Sqrt token and is
\* followed by a primary
SqrtOfPrimary(i) ==
    /\ tokens[i].type = "Sqrt"
    /\ i = 1 \/ tokens[i - 1].type # "Sqrt"
    /\ PrimaryAt(tokens, i + 1).tree # None

\* an identifier no input holds, standing for a sqrt and its primary
Placeholder == Identifier("sqrt of a primary", 0)

RECURSIVE Substitute(_, _)
\* the tree t with the node by in the place of Placeholder
Substitute(t, by) ==
    IF t = Placeholder THEN by
    ELSE IF t.node = "BinaryOp"
    THEN BinaryOp(t.op, Substitute(t.left, by), Substitute(t.right, by))
    ELSE IF t.node = "UnaryOp" THEN UnaryOp(t.op, Substitute(t.operand, by))
    ELSE t

\* the Result of parse on tokens with one identifier in the place of the
\* Sqrt token at i and its primary
ParseAround(i) ==
    Parse(Parser_new(SubSeq(tokens, 1, i - 1)
                     \o << TokIdentifier(Placeholder.name, Placeholder.idx) >>
                     \o SubSeq(tokens, PrimaryAt(tokens, i + 1).last + 1,
                               Len(tokens)))).res

\* parse treats the Sqrt token at i and its primary as one operand, the node
\* NodeOf(the primary): it returns what it returns on tokens with an
\* identifier in their place, with the node in the place of the identifier
ParsesAsOperand(i, around, NodeOf(_)) ==
    IF around.tag = "Err" THEN outcome = around
    ELSE /\ outcome.tag = "Ok"
         /\ outcome.value.ast
              = Substitute(around.value, NodeOf(PrimaryAt(tokens, i + 1).tree.value))

SqrtUnaryOp(operand) == UnaryOp("sqrt", operand)

PowerOfOneHalf(operand) == BinaryOp("^", operand, Number(Rat(1, 2)))

\* C4 as stated: a Sqrt token followed by a primary parses to UnaryOp sqrt of
\* exactly that primary, and the operators that follow apply to that node.
C4_SqrtIsUnaryOp ==
    (outcome # Running /\ tokens # << >>) =>
        \A i \in 1..Len(tokens) :
            SqrtOfPrimary(i) => ParsesAsOperand(i, ParseAround(i), SqrtUnaryOp)

\* C4, amended: a Sqrt token followed by a primary parses to the BinaryOp
\* '^' of exactly that primary and the literal 0.5, and the operators that
\* follow apply to that node.
C4_SqrtIsPowerOfOneHalf ==
    (outcome # Running /\ tokens # << >>) =>
        \A i \in 1..Len(tokens) :
            SqrtOfPrimary(i) => ParsesAsOperand(i, ParseAround(i), PowerOfOneHalf)

\* `sqrt 1 ^ a` was parsed: the '^' applies to the node of sqrt 1
C4_Witness ==
    /\ outcome.tag = "Ok"
    /\ Len(tokens) = 4
    /\ tokens[1].type = "Sqrt" /\ tokens[2].type = "Number"
    /\ tokens[3].type = "Power" /\ tokens[4].type = "Identifier"
    /\ outcome.value.ast.left = PowerOfOneHalf(Number(Rat(1, 1)))

-----------------------------------------------------------------------------
(* Compilations of the texts of the expressions of the grammar of           *)
(* src/src/parser.rs:                                                       *)
(*     assignment := expr ('=' assignment)?                                 *)
(*     expr       := expr ('+'|'-') term | term                             *)
(*     term       := term ('*'|'/') power | power                           *)
(*     power      := primary '^' power | primary                            *)
(*     primary    := NUMBER | IDENTIFIER | '(' expr ')'                     *)
(* An expression is the tree of its derivation; its identifiers carry the   *)
(* index 0, the lexer giving the indices.                                   *)

GrammarLeaves == { Identifier("a", 0), Number(Rat(1, 1)) }

GrammarOps == {"+", "-", "*", "/", "^"}

\* the expressions (expr) of exactly n operators
ExprTrees(n) == TreesWith(n, GrammarLeaves, GrammarOps, {})

RECURSIVE AssignmentTrees(_), AssignmentsFrom(_, _)
\* the assignments of exactly n operators
AssignmentTrees(n) ==
    ExprTrees(n) \cup (IF n = 0 THEN {} ELSE AssignmentsFrom(n, n - 1))

\* those with an '=' root and at most i operators to its left
AssignmentsFrom(n, i) ==
    IF i < 0 THEN {}
    ELSE { BinaryOp("=", l, r) : l \in ExprTrees(i), r \in AssignmentTrees(n - 1 - i) }
         \cup AssignmentsFrom(n, i - 1)

\* how tightly the root of t binds: '=' least, a primary most
Binding(t) ==
    IF t.node # "BinaryOp" THEN 4
    ELSE CASE t.op = "=" -> 0
           [] t.op \in {"+", "-"} -> 1
           [] t.op \in {"*", "/"} -> 2
           [] t.op = "^" -> 3

LeafText(t) ==
    IF t.node = "Number" THEN << FormatF64(t.value) >> ELSE << t.name >>

RECURSIVE Text(_, _)
\* the text of t where the grammar asks for a nonterminal of binding least:
\* t is parenthesised if its root binds less
Text(t, least) ==
    IF t.node # "BinaryOp" THEN LeafText(t)
    ELSE IF Binding(t) < least THEN <<"(">> \o Text(t, 1) \o <<")">>
    ELSE CASE t.op = "=" -> Text(t.left, 1) \o <<"=">> \o Text(t.right, 0)
           [] t.op \in {"+", "-"} -> Text(t.left, 1) \o << t.op >> \o Text(t.right, 2)
           [] t.op \in {"*", "/"} -> Text(t.left, 2) \o << t.op >> \o Text(t.right, 3)
           [] t.op = "^" -> Text(t.left, 4) \o <<"^">> \o Text(t.right, 3)

RECURSIVE WithoutIndices(_)
\* t with the index of every identifier set to 0
WithoutIndices(t) ==
    CASE t.node = "Identifier" -> Identifier(t.name, 0)
      [] t.node = "BinaryOp" ->
           BinaryOp(t.op, WithoutIndices(t.left), WithoutIndices(t.right))
      [] t.node = "UnaryOp" -> UnaryOp(t.op, WithoutIndices(t.operand))
      [] OTHER -> t

InitGrammar ==
    \E n \in 0..MaxGrammarOps : \E t \in AssignmentTrees(n) :
        /\ InitCompile(Text(t, 0))
        /\ ast = Some(t)
        /\ warnings = None
        /\ tac = None

\* compilations of the texts of the expressions of at most MaxGrammarOps operators
SpecGrammar == InitGrammar /\ [][NextCompile]_vars

-----------------------------------------------------------------------------
(* Precedence and associativity (C3).                                       *)

\* C3: for the text of every expression of the grammar, from_input succeeds,
\* Parser::parse having consumed all the tokens, and the AST is the tree of
\* the derivation: '+' and '-' group to the left and bind looser than '*'
\* and '/', which group to the left and bind looser than '^', which groups
\* to the right; '=' groups to the right and binds loosest.
C3_GrammarTree ==
    outcome # Running =>
        /\ outcome.tag = "Ok"
        /\ WithoutIndices(outcome.value.ast) = ast.value
        /\ parser.value.pos = Len(tokens)

\* the text a^1^a was compiled, ast being the tree a^(1^a)
C3_Witness ==
    /\ outcome.tag = "Ok"
    /\ input = <<"a", "^", "1", "^", "a">>
    /\ ast.value.right.node = "BinaryOp"
    /\ outcome.value.ast.right.op = "^"

-----------------------------------------------------------------------------
(* ExpressionParserApp (src/src/ui.rs): the text box, the example buttons   *)
(* and the Compile button.                                                  *)

DEFAULT_EXPRESSION == <<"A", " ", "=", " ", "B", " ", "+", " ", "C">>

\* the `examples` of render_examples
Examples ==
    { <<"A", " ", "=", " ", "B", " ", "+", " ", "C">>,
      <<"s", "q", "r", "t", "(", "1", "6", ")", " ", "+", " ", "2", " ", "*", " ", "3">>,
      <<"a", " ", "+", " ", "b", " ", "*", " ", "c">>,
      <<"x", "^", "2", " ", "+", " ", "2", "*", "x", " ", "+", " ", "1">>,
      <<"5", " ", "+", " ", "3", " ", "*", " ", "0">>,
      <<"(", "1", "0", " ", "-", " ", "4", ")", " ", "/", " ", "2">> }

\* texts the user types into the text box
TypedInputs ==
    { << >>, <<" ">>, <<"1", " ", "+">>, <<"1", ".", "5", ".", "2">>, <<"#">>,
      <<"1", "/", "0">>, <<"x", " ", "=", " ", ")">>, <<"y">> }

\* the state of ExpressionParserApp::default()
Init ==
    /\ build \in Builds
    /\ input = DEFAULT_EXPRESSION
    /\ parse_result = None
    /\ error = None
    /\ lexer = None
    /\ tokens = << >>
    /\ lex_result = Running
    /\ parser = None
    /\ outcome = Running
    /\ TreeIdle
    /\ OptimizeIdle
    /\ PeepholeIdle

\* text_edit_singleline(&mut self.input): the user edits the text
EditInput ==
    /\ \E text \in TypedInputs : input' = text
    /\ UNCHANGED << parse_result, error, lexer, tokens, lex_result, parser,
                    outcome, ast, warnings, tac,
                    optimized, value, lines, optimized_code, build >>

\* a click on an example button
SelectExample ==
    /\ \E example \in Examples : input' = example
    /\ UNCHANGED << parse_result, error, lexer, tokens, lex_result, parser,
                    outcome, ast, warnings, tac,
                    optimized, value, lines, optimized_code, build >>

\* a process_expression that does not reset parse_result
StoreResultKeepsOld(r) ==
    IF r.tag = "Ok"
    THEN parse_result' = Some(r.value) /\ error' = None
    ELSE parse_result' = parse_result /\ error' = Some(ErrorDisplay(r.error))

\* the match of process_expression on the Result r of from_input, error and
\* parse_result having been set to None first
StoreResult(r) ==
    IF r.tag = "Ok"
    THEN parse_result' = Some(r.value) /\ error' = None
    ELSE parse_result' = None /\ error' = Some(ErrorDisplay(r.error))

\* ExpressionParserApp::process_expression
ProcessExpression ==
    /\ StoreResult(FromInput(input))
    /\ UNCHANGED << input, lexer, tokens, lex_result, parser, outcome,
                    ast, warnings, tac,
                    optimized, value, lines, optimized_code, build >>

Next == EditInput \/ SelectExample \/ ProcessExpression

\* the application
Spec == Init /\ [][Next]_vars

-----------------------------------------------------------------------------
(* What the application holds (C5).                                         *)

\* C5: the application never holds both a compilation result and an error:
\* while it holds the error of a failed request it holds no ParseResult (no
\* tokens, identifier table, AST or three-address code), neither of that
\* request nor of an earlier one.
C5_ResultOrError ==
    /\ ~(parse_result # None /\ error # None)
    /\ error # None => parse_result = None

\* a request has failed in lexing: the error is held and no ParseResult
C5_Witness ==
    /\ error = Some("Invalid number: 1.5.2")
    /\ parse_result = None

-----------------------------------------------------------------------------
(* ASTNode::optimize and ASTNode::evaluate applied to a tree: optimize on   *)
(* the tree and on its own result, evaluate on the tree and on optimize of  *)
(* the tree.                                                                *)

\* ast.optimize(), then optimize() of what it returned
OptimizeStep ==
    /\ ast # None
    /\ Len(optimized) < 2
    /\ optimized' = Append(optimized,
                           Optimize(IF optimized = << >> THEN ast.value
                                    ELSE optimized[Len(optimized)]))
    /\ UNCHANGED << input, parse_result, error, lexer, tokens, lex_result,
                    parser, outcome, ast, warnings, tac, value, lines,
                    optimized_code, build >>

\* ast.evaluate()
EvaluateStep ==
    /\ ast # None
    /\ value = << >>
    /\ value' = << Evaluate(ast.value) >>
    /\ UNCHANGED << input, parse_result, error, lexer, tokens, lex_result,
                    parser, outcome, ast, warnings, tac, optimized, lines,
                    optimized_code, build >>

\* ast.optimize().evaluate()
EvaluateOptimizedStep ==
    /\ Len(value) = 1
    /\ optimized # << >>
    /\ value' = Append(value, Evaluate(optimized[1]))
    /\ UNCHANGED << input, parse_result, error, lexer, tokens, lex_result,
                    parser, outcome, ast, warnings, tac, optimized, lines,
                    optimized_code, build >>

NextOptimize == OptimizeStep \/ EvaluateStep \/ EvaluateOptimizedStep

\* sums, differences and products over an identifier and the literal 0
ZeroTrees(n) ==
    TreesWith(n, { Identifier("a", 1), Number(Rat(0, 1)) }, {"+", "-", "*"}, {})

\* products, quotients and powers over an identifier and the literal 1
OneTrees(n) ==
    TreesWith(n, { Identifier("a", 1), Number(Rat(1, 1)) }, {"*", "/", "^"}, {})

\* quotients, powers and assignments over an identifier and the literal 0
ZeroPowerTrees(n) ==
    TreesWith(n, { Identifier("a", 1), Number(Rat(0, 1)) }, {"/", "^", "="}, {})

\* products, assignments and negations of the literals 0 and infinity (the
\* f64 of a literal of more than 309 digits)
InfinityTrees(n) ==
    TreesWith(n, { Number(Rat(0, 1)), Number(PosInf) }, {"*", "="}, {"neg"})

\* constant expressions over 2 and 0.5
ConstantTrees(n) ==
    TreesWith(n, { Number(Rat(2, 1)), Number(Rat(1, 2)) }, {"-", "/", "^"}, {"sqrt"})

\* constant sums and assignments over 1 and 4
ConstantAssignTrees(n) ==
    TreesWith(n, { Number(Rat(1, 1)), Number(Rat(4, 1)) }, {"+", "="}, {"sqrt"})

\* sums and differences over the literals 0.1 and 0.2: 0.1 + 0.2 is
\* rounded, (0.1 + 0.1) - 0.2 is 0
RoundedSumTrees(n) ==
    TreesWith(n, { Number(Rat(1, 10)), Number(Rat(1, 5)) }, {"+", "-"}, {})

\* sums and products over an identifier and the literals 0.1 and 0.9, whose
\* sum is rounded to 1
RoundedOneTrees(n) ==
    TreesWith(n, { Identifier("a", 1), Number(Rat(1, 10)), Number(Rat(9, 10)) },
              {"+", "*"}, {})

OptimizeTrees(n) ==
    ZeroTrees(n) \cup OneTrees(n) \cup ZeroPowerTrees(n) \cup InfinityTrees(n)
        \cup ConstantTrees(n) \cup ConstantAssignTrees(n)
        \cup RoundedSumTrees(n) \cup RoundedOneTrees(n)

InitOptimize ==
    /\ build \in Builds
    /\ CompileIdle
    /\ AppIdle
    /\ \E n \in 0..MaxOptOps : \E t \in OptimizeTrees(n) : ast = Some(t)
    /\ warnings = None
    /\ tac = None
    /\ OptimizeIdle
    /\ PeepholeIdle

\* optimize and evaluate on trees of at most MaxOptOps operator nodes
SpecOptimize == InitOptimize /\ [][NextOptimize]_vars

\* the operands of the constant texts: two literals and a square root
ConstantTerms == { <<"2">>, <<"0", ".", "1">>, <<"s", "q", "r", "t", " ", "0">> }

\* the operators of the constant texts
ConstantOperators == { "-", "*", "/", "^", "=" }

RECURSIVE ConstantTexts(_)
\* the texts of at most k operators over ConstantTerms
ConstantTexts(k) ==
    IF k = 0 THEN ConstantTerms
    ELSE LET shorter == ConstantTexts(k - 1)
         IN  shorter \cup { s \o << op >> \o t :
                               s \in shorter, op \in ConstantOperators,
                               t \in ConstantTerms }

\* from_input up to `let ast = parser.parse()?`, t being the lexer as
\* tokenize left it with the Result of tokenize: the Result of parse
ParseAfter(t) ==
    IF t.res.tag = "Err" THEN t.res
    ELSE IF t.res.value = << >> THEN Err(UnexpectedEndOfInput)
    ELSE Parse(Parser_new(t.res.value)).res

\* ast is the AST that the Result r of parse holds
IsAstOf(r) == r.tag = "Ok" /\ ast = Some(r.value)

InitConstant ==
    /\ build \in Builds
    /\ CompileIdle
    /\ AppIdle
    /\ \E in \in ConstantTexts(MaxConstOps) : IsAstOf(ParseAfter(Tokenize(Lexer_new(in))))
    /\ warnings = None
    /\ tac = None
    /\ OptimizeIdle
    /\ PeepholeIdle

\* optimize and evaluate on the ASTs from_input returns for the constant
\* texts of at most MaxConstOps operators
SpecConstant == InitConstant /\ [][NextOptimize]_vars

-----------------------------------------------------------------------------
(* ParseResult::peephole_optimize applied to the code from_input gives it.  *)

\* ParseResult::peephole_optimize(lines)
PeepholeStep ==
    /\ lines # None
    /\ optimized_code = None
    /\ optimized_code' = Some(PeepholeOptimize(lines.value))
    /\ UNCHANGED << input, parse_result, error, lexer, tokens, lex_result,
                    parser, outcome, ast, warnings, tac, optimized, value,
                    lines, build >>

NextPeephole == PeepholeStep

\* the expressions a chained assignment is made of: an identifier, a sum, a
\* product, a literal
ChainTerms ==
    { <<"c">>, <<"a", "+", "b">>, <<"d", "*", "e">>, <<"1">> }

RECURSIVE Chains(_)
\* the texts `E = E = ... = E` of at most k expressions of ChainTerms
Chains(k) ==
    IF k = 1 THEN ChainTerms
    ELSE LET shorter == Chains(k - 1)
         IN  shorter \cup { e \o <<"=">> \o s : e \in ChainTerms, s \in shorter }

\* from_input at `Self::peephole_optimize(optimized_three_address_code)`:
\* lines is the three-address code of the optimized AST of the ParseResult r
IsCodeOf(r) ==
    r.tag = "Ok" /\ lines = Some(ToThreeAddressCode(r.value.optimized_ast, 1).code)

InitPeephole ==
    /\ build \in Builds
    /\ CompileIdle
    /\ AppIdle
    /\ TreeIdle
    /\ OptimizeIdle
    /\ \E in \in Chains(MaxChain) : IsCodeOf(FromInput(in))
    /\ optimized_code = None

\* peephole_optimize on the code from_input gives it for the chained
\* assignments of at most MaxChain expressions
SpecPeephole == InitPeephole /\ [][NextPeephole]_vars

-----------------------------------------------------------------------------
(* The destinations of the three-address code (C11).                        *)

\* a temporary t<N> or an identifier reference id<index>
IsDestination(part) ==
    \E k \in 0..MaxTempIndex : part = TempName(k) \/ part = "id" \o ToString(k)

\* C11: in the three-address code of every AST parse returns, the
\* destination of every line is a temporary t<N> or an identifier reference
\* id<index>, and no two lines have the same destination.
C11_DestinationsAssignedOnce ==
    outcome.tag = "Ok" =>
        \A i \in 1..Len(outcome.value.three_address_code) :
            /\ IsDestination(outcome.value.three_address_code[i][1])
            /\ \A j \in 1..Len(outcome.value.three_address_code) :
                 outcome.value.three_address_code[j][1]
                     = outcome.value.three_address_code[i][1] => j = i

-----------------------------------------------------------------------------
(* Constant folding (C12).                                                  *)

\* the root of ast is a BinaryOp whose two operands optimize to Numbers
FoldingApplies ==
    /\ optimized # << >>
    /\ ast.value.node = "BinaryOp"
    /\ Optimize(ast.value.left).node = "Number"
    /\ Optimize(ast.value.right).node = "Number"

\* the root of ast over its optimized operands
OverOptimizedOperands ==
    BinaryOp(ast.value.op, Optimize(ast.value.left), Optimize(ast.value.right))

\* the Number of the result of the operator of the root of ast on its
\* optimized operands
FoldedRoot ==
    Number(EvaluateOp(ast.value.op, Optimize(ast.value.left).value,
                      Optimize(ast.value.right).value))

\* C12 as stated: optimize replaces a BinaryOp whose two operands optimize
\* to Numbers by the Number of the operator's result, except a '/' whose
\* right operand optimizes to a literal zero, which stays a BinaryOp '/' over
\* its optimized operands.
C12_FoldsAllButDivisionByZero ==
    FoldingApplies =>
        optimized[1] =
            IF ast.value.op = "/" /\ IsNumberZero(Optimize(ast.value.right))
            THEN OverOptimizedOperands
            ELSE FoldedRoot

\* C12, amended: optimize replaces a BinaryOp whose two operands optimize to
\* Numbers by the Number of the operator's result, with two exceptions that
\* stay a BinaryOp over the optimized operands: a '/' whose right operand
\* optimizes to a literal zero, and every '='.
C12_FoldsAllButDivisionByZeroAndAssign ==
    FoldingApplies =>
        optimized[1] =
            IF \/ ast.value.op = "/" /\ IsNumberZero(Optimize(ast.value.right))
               \/ ast.value.op = "="
            THEN OverOptimizedOperands
            ELSE FoldedRoot

\* 2 / (0.5 - 0.5) was optimized: the right operand folded to 0 and the
\* division stayed
C12_Witness ==
    /\ optimized # << >>
    /\ ast.value = BinaryOp("/", Number(Rat(2, 1)),
                            BinaryOp("-", Number(Rat(1, 2)), Number(Rat(1, 2))))
    /\ optimized[1] = BinaryOp("/", Number(Rat(2, 1)), Number(PosZero))

-----------------------------------------------------------------------------
(* The algebraic identities (C13).                                          *)

\* the literal 0
LiteralZero(n) == n.node = "Number" /\ n.value \in { PosZero, NegZero }

\* the literal 1
LiteralOne(n) == n.node = "Number" /\ n.value = Rat(1, 1)

\* what the ten identities make of op over the operands l and r
IdentityResults(op, l, r) ==
    { x \in { l } : \/ op = "+" /\ LiteralZero(r)
                    \/ op = "-" /\ LiteralZero(r)
                    \/ op = "*" /\ LiteralOne(r)
                    \/ op = "/" /\ LiteralOne(r)
                    \/ op = "^" /\ LiteralOne(r) }
    \cup { x \in { r } : \/ op = "+" /\ LiteralZero(l)
                         \/ op = "*" /\ LiteralOne(l) }
    \cup { x \in { Number(Rat(0, 1)) } :
             op = "*" /\ (LiteralZero(l) \/ LiteralZero(r)) }
    \cup { x \in { Number(Rat(1, 1)) } : op = "^" /\ LiteralZero(r) }

\* the root of ast is a BinaryOp that constant folding does not replace
FoldingDoesNotApply ==
    /\ optimized # << >>
    /\ ast.value.node = "BinaryOp"
    /\ \/ Optimize(ast.value.left).node # "Number"
       \/ Optimize(ast.value.right).node # "Number"
       \/ ast.value.op = "="
       \/ ast.value.op = "/" /\ LiteralZero(Optimize(ast.value.right))

\* C13: where constant folding does not apply, optimize rewrites a BinaryOp
\* over its optimized operands by the identities x+0=x, 0+x=x, x-0=x, x*0=0,
\* 0*x=0, x*1=x, 1*x=x, x/1=x, x^0=1, x^1=x, x being the optimized other
\* operand; a node that matches none of them is rebuilt with the same
\* operator over its optimized operands.
C13_Identities ==
    FoldingDoesNotApply =>
        IF IdentityResults(ast.value.op, Optimize(ast.value.left),
                           Optimize(ast.value.right)) = {}
        THEN optimized[1] = OverOptimizedOperands
        ELSE optimized[1] \in IdentityResults(ast.value.op,
                                              Optimize(ast.value.left),
                                              Optimize(ast.value.right))

\* 0 + (a - 0) was optimized to a
C13_Witness ==
    /\ optimized # << >>
    /\ ast.value = BinaryOp("+", Number(Rat(0, 1)),
                            BinaryOp("-", Identifier("a", 1), Number(Rat(0, 1))))
    /\ optimized[1] = Identifier("a", 1)

-----------------------------------------------------------------------------
(* Idempotence of optimize (C14).                                           *)

\* C14: optimize of the result of optimize has the textual form of that
\* result.
C14_Idempotent ==
    Len(optimized) = 2 => Display(optimized[2]) = Display(optimized[1])

\* (a + 0) - a was optimized to a - a, and a - a was optimized
C14_Witness ==
    /\ Len(optimized) = 2
    /\ ast.value = BinaryOp("-", BinaryOp("+", Identifier("a", 1), Number(Rat(0, 1))),
                            Identifier("a", 1))
    /\ Display(optimized[1]) = "(id1 - id1)"

-----------------------------------------------------------------------------
(* The value of constant expressions (C15).                                 *)

RECURSIVE Subtrees(_)
\* the nodes of t
Subtrees(t) ==
    CASE t.node = "BinaryOp" -> { t } \cup Subtrees(t.left) \cup Subtrees(t.right)
      [] t.node = "UnaryOp" -> { t } \cup Subtrees(t.operand)
      [] OTHER -> { t }

\* t has no Identifier node
IsConstantExpression(t) == \A s \in Subtrees(t) : s.node # "Identifier"

\* optimize leaves a division of t by a literal zero unfolded
DivisionByZeroLeft(t) ==
    \E s \in Subtrees(t) :
        s.node = "BinaryOp" /\ s.op = "/" /\ LiteralZero(Optimize(s.right))

\* the same f64 value: both NaN, or equal (0.0 and -0.0 are equal)
SameValue(x, y) == x = y \/ (x \in { PosZero, NegZero } /\ y \in { PosZero, NegZero })

\* C15: for every AST with no Identifier node that from_input returns,
\* evaluate of optimize of the AST is the value evaluate gives for the AST
\* (both NaN, or equal), except where optimize leaves a division by a
\* literal zero unfolded.
C15_SameValue ==
    (Len(value) = 2 /\ IsConstantExpression(ast.value)
                    /\ ~DivisionByZeroLeft(ast.value)) =>
        SameValue(value[2], value[1])

\* the AST of `2-0.1*0.1` was optimized to one Number, and both evaluate to
\* 1.99; 0.1 * 0.1 is rounded
C15_Witness ==
    /\ Len(value) = 2
    /\ ast.value = BinaryOp("-", Number(Rat(2, 1)),
                            BinaryOp("*", Number(Rat(1, 10)), Number(Rat(1, 10))))
    /\ optimized[1] = Number(value[2])
    /\ value[1] = value[2]
    /\ FormatF64(value[2]) = "1.99"

-----------------------------------------------------------------------------
(* Adjacent definition and copy (C16).                                      *)

\* the function names of the lines `dest = func(arg)`
FunctionNames == { "sqrt" }

\* the temporary t appears in the part of a right-hand side: as the part
\* itself or as the argument of a function
AppearsIn(t, part) ==
    part = t \/ \E f \in FunctionNames : part = f \o "(" \o t \o ")"

\* the lines of code with t in their right-hand side
LinesUsing(code, t) ==
    { j \in 1..Len(code) :
        IsAssignment(code[j]) /\ \E k \in 3..Len(code[j]) : AppearsIn(t, code[j][k]) }

\* the temporaries t<N>
Temporaries == { TempName(k) : k \in 0..MaxTempIndex }

\* lines i and i + 1 of code are `t = E` and `x = t`, t being a temporary
\* that appears in no other right-hand side
DefinitionAndCopy(code, i) ==
    /\ i \in 1..(Len(code) - 1)
    /\ IsAssignment(code[i])
    /\ IsTempName(code[i][1])
    /\ IsAssignment(code[i + 1])
    /\ Rhs(code[i + 1]) = << code[i][1] >>
    /\ LinesUsing(code, code[i][1]) = { i + 1 }

RECURSIVE LastCopy(_, _)
\* the copy that ends the pair at lines i and i + 1: line i + 1, or, where
\* lines i + 1 and i + 2 are a pair too, the copy that ends that pair
LastCopy(code, i) ==
    IF DefinitionAndCopy(code, i + 1) THEN LastCopy(code, i + 1) ELSE i + 1

RECURSIVE OtherLines(_, _)
\* the lines of code from line j on that belong to no pair, in order
OtherLines(code, j) ==
    IF j > Len(code) THEN << >>
    ELSE (IF DefinitionAndCopy(code, j) \/ DefinitionAndCopy(code, j - 1)
          THEN << >> ELSE << code[j] >>) \o OtherLines(code, j + 1)

RECURSIVE IsSubsequence(_, _)
\* the elements of a are elements of b, in the same order
IsSubsequence(a, b) ==
    IF a = << >> THEN TRUE
    ELSE IF b = << >> THEN FALSE
    ELSE IF Head(a) = Head(b) THEN IsSubsequence(Tail(a), Tail(b))
    ELSE IsSubsequence(a, Tail(b))

\* the line `x = E` of the pair `t = E`, `x = t` at lines i and i + 1; where
\* the copy is the definition of a next pair, `t = E`, `u = t`, `x = u`, the
\* pairs are taken together and the line is still `x = E`
Collapsed(code, i) == << code[LastCopy(code, i)][1], "=" >> \o Rhs(code[i])

\* C16: in the code from_input gives to peephole_optimize, for adjacent
\* lines `t = E` and `x = t`, t being a temporary that appears in no other
\* right-hand side, peephole_optimize outputs the line `x = E` (pairs that
\* share a line taken together), and it keeps every line outside such
\* pairs, in their order.
C16_PairCollapses ==
    optimized_code # None =>
        /\ \A i \in 1..Len(lines.value) :
             (DefinitionAndCopy(lines.value, i)
                 /\ ~DefinitionAndCopy(lines.value, i - 1)) =>
                 \E k \in 1..Len(optimized_code.value) :
                     optimized_code.value[k] = Collapsed(lines.value, i)
        /\ IsSubsequence(OtherLines(lines.value, 1), optimized_code.value)

-----------------------------------------------------------------------------
(* The optimized code of an input that optimizes to a literal (C17).        *)

\* C17: where the AST of the input optimizes to a single literal, the
\* optimized three-address code of the ParseResult is exactly one line,
\* which assigns that literal.
C17_OneLineForLiteral ==
    (outcome.tag = "Ok" /\ outcome.value.optimized_ast.node = "Number") =>
        /\ Len(outcome.value.optimized_three_address_code) = 1
        /\ Rhs(outcome.value.optimized_three_address_code[1])
             = << FormatF64(outcome.value.optimized_ast.value) >>
        /\ outcome.value.optimized_three_address_code[1][2] = "="

-----------------------------------------------------------------------------
(* Substitution and removal (C19).                                          *)

\* the third pass substitutes the definition of a temporary into line j of
\* code
Substitutes(code, j) ==
    /\ j \in 1..Len(code)
    /\ j \notin SkipIndices(code)
    /\ OutputLine(code, code[j]) # code[j]

\* the line `t = D` for the temporary t and the definition D that the first
\* pass has recorded for it
RecordedDefinition(code, t) == << t, "=" >> \o TempDefinition(code, t)

    /\ optimized_code = Some(<< <<"id1", "=", "id2", "+", "id3">> >>)

-----------------------------------------------------------------------------
(* Where '=' nodes occur (C20).                                             *)

IsAssignNode(s) == s.node = "BinaryOp" /\ s.op = "="

\* the operands of the nodes of t other than the right operands of '='
Operands(t) ==
    { s.left : s \in { u \in Subtrees(t) : u.node = "BinaryOp" } }
    \cup { s.right : s \in { u \in Subtrees(t) : u.node = "BinaryOp" /\ u.op # "=" } }
    \cup { s.operand : s \in { u \in Subtrees(t) : u.node = "UnaryOp" } }

\* the right operands of the '=' nodes of t
AssignRightOperands(t) ==
    { s.right : s \in { u \in Subtrees(t) : IsAssignNode(u) } }

\* C20 as stated: in the AST parse returns, no '=' node is an operand of
\* another node.
C20_AssignOnlyAtRoot ==
    outcome.tag = "Ok" =>
        \A s \in Operands(outcome.value.ast) \cup AssignRightOperands(outcome.value.ast) :
            ~IsAssignNode(s)

\* C20, amended: in the AST parse returns, an '=' node is the root or the
\* right operand of another '=' node; it is never the left operand of an
\* '=' nor an operand of another operator.
C20_AssignOnlyOnRightSpine ==
    outcome.tag = "Ok" =>
        \A s \in Operands(outcome.value.ast) : ~IsAssignNode(s)

\* the text a = 1 = a was compiled: the root and its right operand are '='
C20_Witness ==
    /\ outcome.tag = "Ok"
    /\ input = <<"a", "=", "1", "=", "a">>
    /\ IsAssignNode(outcome.value.ast)
    /\ IsAssignNode(outcome.value.ast.right)

-----------------------------------------------------------------------------
(* A missing closing parenthesis (C21).                                     *)

\* the parser on toks with its cursor after k tokens
ParserAt(toks, k) == [tokens |-> toks, pos |-> k]

\* parse_primary at the '(' that is token k returns what parse_expr returned
\* for the expression after it, cursor included
ReturnsExpressionOf(k, e) ==
    (~Failed(e) /\ ~PeekIs(e.parser, "RParen")) =>
        ParsePrimary(ParserAt(tokens, k - 1)) = e

\* the tokens are a '(' and an expression that ends the input: they compile
\* to the AST that closed, the tokens with a ')' after them, parse to
MissingAtEnd(e, closed) ==
    (~Failed(e) /\ e.parser.pos = Len(tokens)) =>
        /\ outcome.tag = "Ok"
        /\ closed.res.tag = "Ok"
        /\ outcome.value.ast = closed.res.value
        /\ parser.value.pos = Len(tokens)

\* C21: where the expression after a '(' has been parsed and the next token
\* is not ')' or no token is left, parse_primary returns that expression
\* without an error and without moving the cursor; an input that is a '('
\* and an expression with no ')' compiles to the AST of the input with the
\* ')'.
C21_MissingParenTolerated ==
    (outcome # Running /\ tokens # << >>) =>
        /\ \A k \in 1..Len(tokens) :
             tokens[k].type = "LParen" =>
                 ReturnsExpressionOf(k, ParseExpr(ParserAt(tokens, k)))
        /\ tokens[1].type = "LParen" =>
             MissingAtEnd(ParseExpr(ParserAt(tokens, 1)),
                          Parse(Parser_new(tokens \o << TokSimple("RParen") >>)))

\* `( 1 + a` was compiled to the AST of `( 1 + a )`
C21_Witness ==
    /\ outcome.tag = "Ok"
    /\ Len(tokens) = 4
    /\ tokens[1].type = "LParen"
    /\ tokens[3].type = "Plus"
    /\ outcome.value.ast = BinaryOp("+", Number(Rat(1, 1)), Identifier("a", 1))
    /\ parser.value.pos = 4

-----------------------------------------------------------------------------
(* Termination of a compilation (C22).                                      *)

\* the pieces of the inputs whose compilations are followed to their end
TerminationPieces == { <<"a">>, <<"1">>, <<".">>, <<" ">>, <<"+">>, <<"#">> }

InitTermination ==
    TreeIdle /\ \E in \in Concatenations(TerminationPieces, MaxPieces) : InitCompile(in)

\* a step is possible exactly while from_input has not returned: next_token
\* while tokenize runs, then the rest of from_input
StepPossible == outcome = Running

\* compilations that are not left unfinished: from_input runs without
\* suspension, so a step that can be taken is taken. This is
\* WF_vars(NextCompile) with ENABLED <<NextCompile>>_vars written as the
\* state predicate StepPossible.
SpecTermination ==
    /\ InitTermination
    /\ [][NextCompile]_vars
    /\ ([]<>(~StepPossible) \/ []<><<NextCompile>>_vars)

\* no cursor is past the end of its sequence
CursorsInRange ==
    /\ lexer # None => lexer.pos <= Len(input)
    /\ parser # None => parser.value.pos <= Len(tokens)

\* Parser::advance at every position of tokens: it moves the cursor by one
\* where it returns a token, and leaves it where no token is left
AdvanceMovesByOne ==
    \A k \in 0..Len(tokens) :
        IF k < Len(tokens)
        THEN /\ Advance(ParserAt(tokens, k)).res = Ok(tokens[k + 1])
             /\ Advance(ParserAt(tokens, k)).parser.pos = k + 1
        ELSE /\ Advance(ParserAt(tokens, k)).res = Err(UnexpectedEndOfInput)
             /\ Advance(ParserAt(tokens, k)).parser.pos = k

\* the four values of ParseError
ErrorKinds == { "InvalidToken", "UnexpectedToken", "UnexpectedEndOfInput",
                "InvalidNumber" }

\* from_input has returned a ParseResult or one of the four errors
EndsWithResultOrError ==
    outcome # Running =>
        \/ outcome.tag = "Ok"
        \/ outcome.tag = "Err" /\ outcome.error.kind \in ErrorKinds

\* a step of the lexer that yields a token moves the cursor of the lexer
\* forward
TokenMovesCursor ==
    Len(tokens') > Len(tokens) => (lexer # None /\ lexer'.pos > lexer.pos)

\* C22: every compilation terminates: a lexer step that yields a token and a
\* parser step that consumes one move their cursor forward, no cursor goes
\* past the end of its sequence, and from_input returns a result or one of
\* the four errors.
C22_Terminates ==
    /\ [](CursorsInRange /\ AdvanceMovesByOne /\ EndsWithResultOrError)
    /\ [][TokenMovesCursor]_vars
    /\ <>[](outcome # Running)

\* `1+a+` was compiled to its end: four tokens, then the error of parse
C22_Witness ==
    /\ outcome = Err(UnexpectedEndOfInput)
    /\ Len(tokens) = 4
    /\ lexer.pos = Len(input)
    /\ parser.value.pos = 4


-----------------------------------------------------------------------------
(* The temporaries of the optimized three-address code (C23).               *)

InitChain == TreeIdle /\ \E in \in Chains(MaxChain) : InitCompile(in)

\* compilations of the chained assignments
SpecChain == InitChain /\ [][NextCompile]_vars

\* line j of code assigns to t
Defines(code, j, t) == IsAssignment(code[j]) /\ code[j][1] = t

\* every temporary in the right-hand side of a line of code is the
\* destination of an earlier line
DefinedBeforeUse(code) ==
    \A t \in Temporaries : \A i \in LinesUsing(code, t) :
        \E j \in 1..(i - 1) : Defines(code, j, t)

\* C23: for every input that compiles, every temporary in the right-hand
\* side of a line of the optimized three-address code is defined by an
\* earlier line of the optimized three-address code.
C23_OptimizedCodeWellFormed ==
    outcome.tag = "Ok" => DefinedBeforeUse(outcome.value.optimized_three_address_code)


-----------------------------------------------------------------------------
(* The sign of the numbers of an AST and the warnings (C24).                *)

\* the pieces of the inputs with signs, fractional exponents and divisions
\* by zero
SignPieces ==
    { <<"a">>, <<"1">>, <<"-", "1">>, <<"^">>, <<"^", "0", ".", "5">>,
      <<"/", "0">>, <<"(">> }

InitSigns == TreeIdle /\ \E in \in Concatenations(SignPieces, MaxPieces) : InitCompile(in)

\* compilations of the inputs made of SignPieces
SpecSigns == InitSigns /\ [][NextCompile]_vars

\* the Number leaves of the tree t
NumberLeaves(t) == { n \in Subtrees(t) : n.node = "Number" }

\* C24: every Number leaf of an AST that parse returns is non-negative, and
\* every warning of a compilation result is the division-by-zero warning:
\* none is the warning for a negative base with a fractional exponent.
C24_NoNegativeNumber ==
    outcome.tag = "Ok" =>
        /\ \A n \in NumberLeaves(outcome.value.ast) : ~IsNegative(n.value)
        /\ \A i \in 1..Len(outcome.value.semantic_warnings) :
               outcome.value.semantic_warnings[i] = DivisionByZeroWarning

\* `a/0-1^0.5` was compiled: the '-' is the operator of a difference, the
\* base of the power is the number 1, and the only warning is that of the
\* division
C24_Witness ==
    /\ outcome.tag = "Ok"
    /\ input = <<"a", "/", "0", "-", "1", "^", "0", ".", "5">>
    /\ outcome.value.ast =
           BinaryOp("-", BinaryOp("/", Identifier("a", 1), Number(Rat(0, 1))),
                         BinaryOp("^", Number(Rat(1, 1)), Number(Rat(1, 2))))
    /\ outcome.value.semantic_warnings = << DivisionByZeroWarning >>

=============================================================================
